---- MODULE Spec2Model ----
(***************************************************************************)
(* A model of the hold document layer (package hold of xurwxj/kvdb): typed *)
(* records stored in an ordered key-value engine under type-prefixed keys, *)
(* with secondary and unique indexes kept in step by the write path.       *)
(*                                                                         *)
(* Byte strings are sequences of tokens (each token a short string that    *)
(* stands for a run of bytes); concatenation is \o, so prefixes and        *)
(* suffixes of keys are prefixes and suffixes of sequences.                *)
(***************************************************************************)
EXTENDS Integers, Sequences, FiniteSets, TLC

VARIABLES db, last, sequences, issued,
          codec, engine, gc, handles, goroutines, reader

\* what surrounds the calls of the one caller: the codec pair of the
\* package, the engine's life, the value-log GC task, the sequences the
\* engine has handed out, the goroutines inside a call, an open read
\* transaction
process == <<codec, engine, gc, handles, goroutines, reader>>

vars == <<db, last, sequences, issued, codec, engine, gc, handles, goroutines, reader>>

---------------------------------------------------------------------------
(* Bounds of the model *)

\* number of distinct record keys the callers use
NumKeys == 2

\* number of distinct field values the callers use (the first is the zero value "")
NumVals == 2

\* number of keys the callers draw from the sequence of a type
MaxSeq == 2

\* largest Skip and largest Limit the callers put on a query
MaxSkip == 2

MaxLimit == 2

\* number of value-log files that the writes of a run leave worth rewriting
MaxGarbage == 2

KeyNames == <<"k1", "k2", "k3", "k4">>

\* the unsigned integers 0, 1, 2, ... as the callers and the codec write them
Uint64Names == <<"0", "1", "2", "3", "4">>

\* the first keys of the second lease of a sequence: 100, 101, ...
LeasedNames == <<"100", "101", "102", "103", "104">>

ValNames == <<"", "a", "b", "c">>

Keys == {KeyNames[i] : i \in 1..NumKeys}

---------------------------------------------------------------------------
(* Errors *)

Nil == "nil"

ErrNotFound == "NOT_FOUND"

ErrKeyExists == "KEY_EXISTS"

ErrUniqueExists == "UNIQUE_EXISTS"

ErrKeyNotFound == "badger.ErrKeyNotFound"

ErrReadOnlyTxn == "badger.ErrReadOnlyTxn"

ErrCodec == "CODEC_ERROR"

ErrTypeMismatch == "TYPE_MISMATCH"

ErrMutator == "MUTATOR_ERROR"

ErrBadIndex == "BAD_INDEX"

\* an error of the engine, as Sequence.Release may return
ErrEngine == "ENGINE_ERROR"

---------------------------------------------------------------------------
(* The record types the callers store.  A type is its name (a byte string) *)
(* and its fields with their struct tags.                                  *)

User == <<"User">>

Item == <<"Item">>

TypeNames == {User, Item}

\* a type whose key-tagged field is a uint64, stored under sequence keys
SequenceTest == <<"SequenceTest">>

\* a type whose name begins with the name of Item
ItemTest == <<"Item", "Test">>

\* a type with one field for each way of tagging, and one without a tag
Person == <<"Person">>

\* the pointer type *T, and the type a chain of pointers leads to
Ptr(T) == <<"*">> \o T

RECURSIVE Elem(_)
Elem(T) == IF Head(T) = "*" THEN Elem(Tail(T)) ELSE T

\* struct tags: tagKey is the tag's name (holdIndex, holdKey, hold or none),
\* tagVal its value; typ is the Go type of the field.  The fields of *T
\* are those of T.
StructFields(T) ==
    IF Elem(T) = User
    THEN << [name |-> "Email",    tagKey |-> "hold",      tagVal |-> "unique",   typ |-> "string"],
            [name |-> "Division", tagKey |-> "holdIndex", tagVal |-> "Division", typ |-> "string"] >>
    ELSE IF Elem(T) = SequenceTest
    THEN << [name |-> "Key",      tagKey |-> "holdKey",   tagVal |-> "Key",      typ |-> "uint64"] >>
    ELSE IF Elem(T) = Person
    THEN << [name |-> "Name",     tagKey |-> "",          tagVal |-> "",            typ |-> "string"],
            [name |-> "Division", tagKey |-> "holdIndex", tagVal |-> "IdxDivision", typ |-> "string"],
            [name |-> "Team",     tagKey |-> "holdIndex", tagVal |-> "",            typ |-> "string"],
            [name |-> "Role",     tagKey |-> "hold",      tagVal |-> "index",       typ |-> "string"],
            [name |-> "Email",    tagKey |-> "hold",      tagVal |-> "unique",      typ |-> "string"] >>
    ELSE << [name |-> "Category", tagKey |-> "holdIndex", tagVal |-> "Category", typ |-> "string"] >>

FieldNames(T) == {StructFields(T)[i].name : i \in 1..Len(StructFields(T))}

\* the zero value of a string field
Zero == ""

\* the zero value of a field of Go type typ
ZeroValue(typ) == IF typ = "string" THEN Zero ELSE Uint64Names[1]

ZeroRecord(T) ==
    LET fields == StructFields(T)
    IN  [f \in FieldNames(T) |->
            ZeroValue(fields[CHOOSE i \in 1..Len(fields) : fields[i].name = f].typ)]

\* the key argument that asks for the next key of the type's sequence
NextSequence == "NextSequence"

\* the keys and field values the callers use for a type; Item is a second
\* type sharing the engine, stored under one key with one value.
\* SequenceTest is stored under unsigned integer keys and, its key field
\* notwithstanding, under a string key; its key field holds 0 or 1
KeysOf(T) ==
    IF T \in {User, Person} THEN Keys
    ELSE IF T = SequenceTest THEN {Uint64Names[i] : i \in 1..MaxSeq} \cup {KeyNames[1]}
    ELSE {KeyNames[1]}

ValsOf(T) ==
    IF T \in {User, Person} THEN {ValNames[i] : i \in 1..NumVals}
    ELSE IF T = SequenceTest THEN {Uint64Names[1], Uint64Names[2]}
    ELSE {ValNames[2]}

Records(T) == [FieldNames(T) -> ValsOf(T)]

---------------------------------------------------------------------------
(* Byte strings: order and prefixes *)

\* the tokens in byte order
Alphabet == << "", "\"", "*", "0", "1", "2", "3", "4",
               "100", "101", "102", "103", "104", ":", "Category", "Division", "Email",
               "IdxDivision", "Item", "Key", "Name", "Person", "Role", "SequenceTest",
               "Team", "Test", "User",
               "_index:", "_unique:", "a", "b", "b64", "bh_", "bytes", "c",
               "k1", "k2", "k3", "k4", "string", "struct", "uint64", "{" >>

TokenRank ==
    [tok \in {Alphabet[i] : i \in 1..Len(Alphabet)} |->
        CHOOSE i \in 1..Len(Alphabet) : Alphabet[i] = tok]

Rank(tok) == TokenRank[tok]

RECURSIVE BytesLess(_, _)
BytesLess(x, y) ==
    IF y = <<>> THEN FALSE
    ELSE IF x = <<>> THEN TRUE
    ELSE IF Head(x) = Head(y) THEN BytesLess(Tail(x), Tail(y))
    ELSE Rank(Head(x)) < Rank(Head(y))

HasPrefix(x, p) == Len(x) >= Len(p) /\ SubSeq(x, 1, Len(p)) = p

\* the elements of a finite set of byte strings in ascending byte order
RECURSIVE SortedBytes(_)
SortedBytes(S) ==
    IF S = {} THEN <<>>
    ELSE LET m == CHOOSE x \in S : \A y \in S \ {x} : BytesLess(x, y)
         IN  <<m>> \o SortedBytes(S \ {m})

---------------------------------------------------------------------------
(* Codec: the default encoder and decoder (encoding/gob).  A value passed  *)
(* as interface{} is a tagged value.  A top-level string is sent whole; a  *)
(* struct is sent as the (name, value) pairs of its non-zero fields, and   *)
(* decoding sets the fields the stream names and leaves the others alone.  *)

Str(s) == [kind |-> "string", typ |-> <<>>, v |-> s]

Bytes(b) == [kind |-> "bytes", typ |-> <<>>, v |-> b]

Struct(T, r) == [kind |-> "struct", typ |-> T, v |-> r]

RECURSIVE EncodeFields(_, _)
EncodeFields(fields, r) ==
    IF fields = <<>> THEN <<>>
    ELSE LET f == Head(fields).name
         IN  (IF r[f] = ZeroValue(Head(fields).typ) THEN <<>> ELSE <<f, r[f]>>)
             \o EncodeFields(Tail(fields), r)

DefaultEncode(value) ==
    CASE value.kind = "string" -> <<"string", value.v>>
      [] value.kind = "uint64" -> <<"uint64", value.v>>
      [] value.kind = "bytes"  -> <<"bytes">> \o value.v
      [] OTHER                 -> <<"struct">> \o EncodeFields(StructFields(value.typ), value.v)

RECURSIVE DecodeFields(_, _)
DecodeFields(pairs, r) ==
    IF pairs = <<>> THEN r
    ELSE LET f == pairs[1]
             rest == SubSeq(pairs, 3, Len(pairs))
         IN  IF f \in DOMAIN r
             THEN DecodeFields(rest, [r EXCEPT ![f] = pairs[2]])
             ELSE DecodeFields(rest, r)

\* DefaultDecode as it would be if data were never written to the buffer
\* the decoder reads: the decoder meets the end of its input at once
DefaultDecode_NoWrite(data, value) == [err |-> ErrCodec, v |-> value.v]

\* decodes data into the value that the pointer `value` refers to
DefaultDecode(data, value) ==
    CASE value.kind = "string" ->
            IF Len(data) = 2 /\ data[1] = "string"
            THEN [err |-> Nil, v |-> data[2]]
            ELSE [err |-> ErrCodec, v |-> value.v]
      [] value.kind = "uint64" ->
            IF Len(data) = 2 /\ data[1] = "uint64"
            THEN [err |-> Nil, v |-> data[2]]
            ELSE [err |-> ErrCodec, v |-> value.v]
      [] value.kind = "bytes" ->
            IF Len(data) >= 1 /\ data[1] = "bytes"
            THEN [err |-> Nil, v |-> Tail(data)]
            ELSE [err |-> ErrCodec, v |-> value.v]
      [] OTHER ->
            IF Len(data) >= 1 /\ data[1] = "struct" /\ (Len(data) - 1) % 2 = 0
            THEN [err |-> Nil, v |-> DecodeFields(Tail(data), value.v)]
            ELSE [err |-> ErrCodec, v |-> value.v]

\* the fields of a struct as encoding/json sends them: every field, zero
\* or not, as a (name, value) pair
RECURSIVE MarshalFields(_, _)
MarshalFields(fields, r) ==
    IF fields = <<>> THEN <<>>
    ELSE <<Head(fields).name, r[Head(fields).name]>> \o MarshalFields(Tail(fields), r)

\* json.Marshal: a string in quotes, a number bare, a []byte as a quoted
\* base64 text, a struct as an object
JSONMarshal(value) ==
    CASE value.kind = "string" -> <<"\"", value.v>>
      [] value.kind = "uint64" -> <<value.v>>
      [] value.kind = "bytes"  -> <<"\"", "b64">> \o value.v
      [] OTHER                 -> <<"{">> \o MarshalFields(StructFields(value.typ), value.v)

\* json.Unmarshal into the value that the pointer `value` refers to
JSONUnmarshal(data, value) ==
    CASE value.kind = "string" ->
            IF Len(data) = 2 /\ data[1] = "\""
            THEN [err |-> Nil, v |-> data[2]]
            ELSE [err |-> ErrCodec, v |-> value.v]
      [] value.kind = "uint64" ->
            IF Len(data) = 1 /\ data[1] \in {Uint64Names[i] : i \in 1..Len(Uint64Names)}
            THEN [err |-> Nil, v |-> data[1]]
            ELSE [err |-> ErrCodec, v |-> value.v]
      [] value.kind = "bytes" ->
            IF Len(data) >= 2 /\ data[1] = "\"" /\ data[2] = "b64"
            THEN [err |-> Nil, v |-> SubSeq(data, 3, Len(data))]
            ELSE [err |-> ErrCodec, v |-> value.v]
      [] OTHER ->
            IF Len(data) >= 1 /\ data[1] = "{" /\ (Len(data) - 1) % 2 = 0
            THEN [err |-> Nil, v |-> DecodeFields(Tail(data), value.v)]
            ELSE [err |-> ErrCodec, v |-> value.v]

\* the codec pair of the package: the variables encode and decode, which
\* every Open assigns from its options (the Store keeps no pair of its own)
encode(value) == IF codec = "gob" THEN DefaultEncode(value) ELSE JSONMarshal(value)

decode(data, value) ==
    IF codec = "gob" THEN DefaultDecode(data, value) ELSE JSONUnmarshal(data, value)

---------------------------------------------------------------------------
(* Key layout *)

\* typePrefix as it would be if the type name were left out
typePrefix_NoType(typeName) == <<"bh_">>

typePrefix(typeName) == <<"bh_">> \o typeName

\* encodeKey as it would be if the encoded key were not appended
encodeKey_NoKey(key, typeName) == typePrefix(typeName)

\* the key a caller passes, as the interface{} value it is: an unsigned
\* integer or a string
KeyValue(key) ==
    IF key \in {Uint64Names[i] : i \in 1..Len(Uint64Names)}
    THEN [kind |-> "uint64", typ |-> <<>>, v |-> key]
    ELSE Str(key)

encodeKey(key, typeName) == typePrefix(typeName) \o encode(KeyValue(key))

decodeKey(data, typeName) ==
    decode(SubSeq(data, Len(typePrefix(typeName)) + 1, Len(data)), Str(Zero))

indexKeyPrefix(typeName, indexName) == <<"_index:">> \o typeName \o <<":", indexName, ":">>

uniqueKeyPrefix(typeName, indexName) == <<"_unique:">> \o typeName \o <<":", indexName, ":">>

\* the entry of a non-unique index: encoded field value, then the record key
indexEntryKey(typeName, indexName, indexKey, gk) ==
    indexKeyPrefix(typeName, indexName) \o indexKey \o gk

\* the entry of a unique index: encoded field value only
uniqueKey(typeName, indexName, indexKey) ==
    uniqueKeyPrefix(typeName, indexName) \o indexKey

---------------------------------------------------------------------------
(* The engine's transactions: a transaction works on its own copy kv of    *)
(* the store and is writable (update) or read-only.                        *)

NewTransaction(kv, update) == [kv |-> kv, update |-> update]

Remove(kv, k) == [x \in (DOMAIN kv) \ {k} |-> kv[x]]

txGet(tx, k) ==
    IF k \in DOMAIN tx.kv
    THEN [err |-> Nil, val |-> tx.kv[k]]
    ELSE [err |-> ErrKeyNotFound, val |-> <<>>]

txSet(tx, k, v) ==
    IF tx.update
    THEN [err |-> Nil, tx |-> [tx EXCEPT !.kv = [x \in (DOMAIN @) \cup {k} |-> IF x = k THEN v ELSE @[x]]]]
    ELSE [err |-> ErrReadOnlyTxn, tx |-> tx]

\* tx.Delete as it would be if a read-only transaction took writes
txDelete_Writable(tx, k) == [err |-> Nil, tx |-> [tx EXCEPT !.kv = Remove(@, k)]]

txDelete(tx, k) ==
    IF tx.update
    THEN [err |-> Nil, tx |-> [tx EXCEPT !.kv = Remove(@, k)]]
    ELSE [err |-> ErrReadOnlyTxn, tx |-> tx]

\* db.View(fn): run fn in a read-only transaction, which is discarded
DBView(kv, res) == kv

\* db.Update as it would be if the transaction were committed whatever fn returns
DBUpdate_CommitAlways(kv, res) == res.tx.kv

\* db.Update(fn): run fn in a writable transaction, commit when it returns
\* nil and discard the transaction otherwise; res is what fn returned
DBUpdate(kv, res) == IF res.err = Nil THEN res.tx.kv ELSE kv

---------------------------------------------------------------------------
(* Type catalog *)

\* the tags as they would be read if hold:"unique" set no unique flag
FieldIndex_NoUnique(field) ==
    IF field.tagKey = "holdIndex"
    THEN [name |-> IF field.tagVal # "" THEN field.name ELSE "", unique |-> FALSE]
    ELSE IF field.tagKey = "hold" /\ field.tagVal \in {"index", "unique"}
    THEN [name |-> field.name, unique |-> FALSE]
    ELSE [name |-> "", unique |-> FALSE]

\* the index a field declares: its name ("" for none) and the unique flag
FieldIndex(field) ==
    IF field.tagKey = "holdIndex"
    THEN [name |-> IF field.tagVal # "" THEN field.name ELSE "", unique |-> FALSE]
    ELSE IF field.tagKey = "hold" /\ field.tagVal = "index"
    THEN [name |-> field.name, unique |-> FALSE]
    ELSE IF field.tagKey = "hold" /\ field.tagVal = "unique"
    THEN [name |-> field.name, unique |-> TRUE]
    ELSE [name |-> "", unique |-> FALSE]

\* the extractor as it would be if it encoded the name it is given instead of
\* the field of that name
IndexFunc_EncodesName(name, value) == encode(Str(name))

\* the extractor of an index: the encoded value of the field called name
IndexFunc(name, value) == encode(Str(value[name]))

\* newStorer as it would be without the loop that follows pointers
newStorer_KeepsPointer(T) ==
    LET fields == StructFields(Elem(T))
        idx == {i \in 1..Len(fields) : FieldIndex(fields[i]).name # ""}
    IN  [Type |-> T,
         Indexes |-> [n \in {FieldIndex(fields[i]).name : i \in idx} |->
                        [Unique |-> \E i \in idx : /\ FieldIndex(fields[i]).name = n
                                                  /\ FieldIndex(fields[i]).unique]]]

newStorer(T) ==
    LET fields == StructFields(Elem(T))
        idx == {i \in 1..Len(fields) : FieldIndex(fields[i]).name # ""}
    IN  [Type |-> Elem(T),
         Indexes |-> [n \in {FieldIndex(fields[i]).name : i \in idx} |->
                        [Unique |-> \E i \in idx : /\ FieldIndex(fields[i]).name = n
                                                  /\ FieldIndex(fields[i]).unique]]]

\* the names of a storer's indexes in the order the write path visits them
IndexNames(storer) ==
    LET fields == StructFields(storer.Type)
    IN  SelectSeq([i \in 1..Len(fields) |-> fields[i].name],
                  LAMBDA n : n \in DOMAIN storer.Indexes)

---------------------------------------------------------------------------
(* Indexer.  Every operator on a transaction returns [err, tx]: the error  *)
(* (Nil for none) and the transaction as the call left it.                 *)

\* files record key gk under the index's value of data; a unique index first
\* checks that no record holds the value
indexPut(storer, name, tx, gk, data) ==
    LET indexKey == IndexFunc(name, data)
    IN  IF storer.Indexes[name].Unique
        THEN LET uk == uniqueKey(storer.Type, name, indexKey)
             IN  IF txGet(tx, uk).err # ErrKeyNotFound
                 THEN [err |-> ErrUniqueExists, tx |-> tx]
                 ELSE txSet(tx, uk, encode(Bytes(gk)))
        ELSE txSet(tx, indexEntryKey(storer.Type, name, indexKey, gk), <<>>)

\* removes the entry of record key gk filed under the index's value of data
indexRemove(storer, name, tx, gk, data) ==
    LET indexKey == IndexFunc(name, data)
    IN  IF storer.Indexes[name].Unique
        THEN txDelete(tx, uniqueKey(storer.Type, name, indexKey))
        ELSE txDelete(tx, indexEntryKey(storer.Type, name, indexKey, gk))

RECURSIVE indexAddEach(_, _, _, _, _)
indexAddEach(names, storer, tx, gk, data) ==
    IF names = <<>> THEN [err |-> Nil, tx |-> tx]
    ELSE LET r == indexPut(storer, Head(names), tx, gk, data)
         IN  IF r.err # Nil THEN r
             ELSE indexAddEach(Tail(names), storer, r.tx, gk, data)

\* on_insert: adds an item to every index of its type
indexAdd(storer, tx, gk, data) ==
    indexAddEach(IndexNames(storer), storer, tx, gk, data)

RECURSIVE indexDeleteEach(_, _, _, _, _)
indexDeleteEach(names, storer, tx, gk, data) ==
    IF names = <<>> THEN [err |-> Nil, tx |-> tx]
    ELSE LET r == indexRemove(storer, Head(names), tx, gk, data)
         IN  IF r.err # Nil THEN r
             ELSE indexDeleteEach(Tail(names), storer, r.tx, gk, data)

\* on_delete: removes an item from every index of its type; originalData is
\* the record as stored, not the new one
indexDelete(storer, tx, gk, originalData) ==
    indexDeleteEach(IndexNames(storer), storer, tx, gk, originalData)

\* as indexUpdateEach, with the new entry inserted before the old one is
\* removed, whether or not the encoded value changed
RECURSIVE indexUpdateEach_PutsFirst(_, _, _, _, _, _)
indexUpdateEach_PutsFirst(names, storer, tx, gk, old, new) ==
    IF names = <<>> THEN [err |-> Nil, tx |-> tx]
    ELSE LET n == Head(names)
             a == indexPut(storer, n, tx, gk, new)
             d == IF a.err # Nil THEN a
                  ELSE IF IndexFunc(n, old) = IndexFunc(n, new) THEN a
                  ELSE indexRemove(storer, n, a.tx, gk, old)
         IN  IF d.err # Nil THEN d
             ELSE indexUpdateEach_PutsFirst(Tail(names), storer, d.tx, gk, old, new)

RECURSIVE indexUpdateEach(_, _, _, _, _, _)
indexUpdateEach(names, storer, tx, gk, old, new) ==
    IF names = <<>> THEN [err |-> Nil, tx |-> tx]
    ELSE LET n == Head(names)
         IN  IF IndexFunc(n, old) = IndexFunc(n, new)
             THEN indexUpdateEach(Tail(names), storer, tx, gk, old, new)
             ELSE LET d == indexRemove(storer, n, tx, gk, old)
                      a == IF d.err # Nil THEN d ELSE indexPut(storer, n, d.tx, gk, new)
                  IN  IF a.err # Nil THEN a
                      ELSE indexUpdateEach(Tail(names), storer, a.tx, gk, old, new)

\* on_update: for every index whose encoded value changed, removes the old
\* entry and inserts the new one
indexUpdate(storer, tx, gk, old, new) ==
    indexUpdateEach(IndexNames(storer), storer, tx, gk, old, new)

---------------------------------------------------------------------------
(* Operations on a caller's transaction *)

\* the bandwidth of DefaultOptions: how many keys a sequence leases at a time
SequenceBandwith == 100

\* the engine's GetSequence for a type that has leased nothing yet: the
\* first lease starts at 0
GetSequence(typeName) == [loaded |-> TRUE, next |-> 0, leased |-> SequenceBandwith]

\* the engine's Sequence.Next: the next value, after a new lease when the
\* current one is used up
SequenceNext(seq) ==
    LET s == IF seq.next >= seq.leased
             THEN [seq EXCEPT !.leased = seq.next + SequenceBandwith]
             ELSE seq
    IN  [val |-> s.next, seq |-> [s EXCEPT !.next = @ + 1]]

\* getSequence as it would be if every call asked the engine for a new sequence
getSequence_AlwaysNew(typeName) ==
    LET n == SequenceNext(GetSequence(typeName))
    IN  [err |-> Nil, val |-> Uint64Names[n.val + 1],
         sequences |-> [sequences EXCEPT ![typeName] = n.seq]]

\* the next key of the sequence of a type; the sequence is created on
\* first use and kept in the store's map
getSequence(typeName) ==
    LET seq == IF typeName \in DOMAIN sequences /\ sequences[typeName].loaded
               THEN sequences[typeName]
               ELSE GetSequence(typeName)
        n == SequenceNext(seq)
    IN  [err |-> Nil, val |-> Uint64Names[n.val + 1],
         sequences |-> [t \in DOMAIN sequences \cup {typeName} |->
                           IF t = typeName THEN n.seq ELSE sequences[t]]]

\* the key-tagged field of a type, as a sequence of at most one field
getKeyField(T) ==
    SelectSeq(StructFields(T),
              LAMBDA fld : \/ fld.tagKey = "holdKey"
                           \/ fld.tagKey = "hold" /\ fld.tagVal = "key")

\* the caller's record of dynamic type T with key written into its key
\* field: done when the record is reachable through a pointer, the type
\* has a key field of the key's type, and that field holds its zero value
setKeyField(T, key, data) ==
    LET kf == getKeyField(Elem(T))
    IN  IF /\ Head(T) = "*" /\ kf # <<>> /\ KeyValue(key).kind = kf[1].typ
           /\ data[kf[1].name] = ZeroValue(kf[1].typ)
        THEN [data EXCEPT ![kf[1].name] = key]
        ELSE data

\* TxInsert as it would be without the check for an existing key
TxInsert_Overwrites(tx, key, T, data) ==
    LET storer == newStorer(T)
        seq == IF key = NextSequence THEN getSequence(storer.Type)
               ELSE [err |-> Nil, val |-> key, sequences |-> sequences]
        gk == encodeKey(seq.val, storer.Type)
        rec == setKeyField(T, seq.val, data)
        w == txSet(tx, gk, encode(Struct(storer.Type, rec)))
        a == IF w.err # Nil THEN w ELSE indexAdd(storer, w.tx, gk, rec)
    IN  [err |-> a.err, tx |-> a.tx, key |-> seq.val, data |-> rec,
         sequences |-> seq.sequences]

\* Insert: a key of NextSequence is first replaced by the next key of the
\* type's sequence; an existing record key is refused; the key is written
\* into the record's key field where that applies, and the record is then
\* encoded and stored and its index entries added.  The result carries the
\* key used, the caller's record as the call leaves it and the allocators.
TxInsert(tx, key, T, data) ==
    LET storer == newStorer(T)
        seq == IF key = NextSequence THEN getSequence(storer.Type)
               ELSE [err |-> Nil, val |-> key, sequences |-> sequences]
        gk == encodeKey(seq.val, storer.Type)
        rec == setKeyField(T, seq.val, data)
    IN  IF txGet(tx, gk).err # ErrKeyNotFound
        THEN [err |-> ErrKeyExists, tx |-> tx, key |-> seq.val, data |-> data,
              sequences |-> seq.sequences]
        ELSE LET w == txSet(tx, gk, encode(Struct(storer.Type, rec)))
                 a == IF w.err # Nil THEN w ELSE indexAdd(storer, w.tx, gk, rec)
             IN  [err |-> a.err, tx |-> a.tx, key |-> seq.val, data |-> rec,
                  sequences |-> seq.sequences]

\* writes record new over the stored record old at gk and reconciles the indexes
updateRecord(storer, tx, gk, old, new) ==
    LET w == txSet(tx, gk, encode(Struct(storer.Type, new)))
    IN  IF w.err # Nil THEN w ELSE indexUpdate(storer, w.tx, gk, old, new)

TxUpdate(tx, key, T, data) ==
    LET storer == newStorer(T)
        gk == encodeKey(key, storer.Type)
        item == txGet(tx, gk)
    IN  IF item.err = ErrKeyNotFound
        THEN [err |-> ErrNotFound, tx |-> tx]
        ELSE LET existing == decode(item.val, Struct(T, ZeroRecord(T)))
             IN  IF existing.err # Nil THEN [err |-> existing.err, tx |-> tx]
                 ELSE updateRecord(storer, tx, gk, existing.v, data)

TxUpsert(tx, key, T, data) ==
    LET gk == encodeKey(key, newStorer(T).Type)
    IN  IF txGet(tx, gk).err = ErrKeyNotFound
        THEN TxInsert(tx, key, T, data)
        ELSE TxUpdate(tx, key, T, data)

\* Get: the record at key decoded into a fresh value of type T
TxGet(tx, key, T) ==
    LET gk == encodeKey(key, newStorer(T).Type)
        item == txGet(tx, gk)
    IN  IF item.err = ErrKeyNotFound
        THEN [err |-> ErrNotFound, v |-> ZeroRecord(T)]
        ELSE decode(item.val, Struct(T, ZeroRecord(T)))

\* TxDelete as it would be if the indexes were removed for the sample value
\* passed in rather than for the stored record
TxDelete_SampleData(tx, key, T) ==
    LET storer == newStorer(T)
        gk == encodeKey(key, storer.Type)
        value == Struct(T, ZeroRecord(T))
        item == txGet(tx, gk)
    IN  IF item.err = ErrKeyNotFound
        THEN [err |-> ErrNotFound, tx |-> tx]
        ELSE LET del == txDelete(tx, gk)
             IN  IF del.err # Nil THEN del
                 ELSE indexDelete(storer, del.tx, gk, value.v)

\* TxDelete as it would be if only the indexes were removed
TxDelete_KeepData(tx, key, T) ==
    LET storer == newStorer(T)
        gk == encodeKey(key, storer.Type)
        item == txGet(tx, gk)
    IN  IF item.err = ErrKeyNotFound
        THEN [err |-> ErrNotFound, tx |-> tx]
        ELSE indexDelete(storer, tx, gk, decode(item.val, Struct(T, ZeroRecord(T))).v)

\* TxDelete as it would be if it stopped after deleting the data
TxDelete_KeepIndexes(tx, key, T) ==
    LET storer == newStorer(T)
        gk == encodeKey(key, storer.Type)
        item == txGet(tx, gk)
    IN  IF item.err = ErrKeyNotFound
        THEN [err |-> ErrNotFound, tx |-> tx]
        ELSE txDelete(tx, gk)

TxDelete(tx, key, T) ==
    LET storer == newStorer(T)
        gk == encodeKey(key, storer.Type)
        value == Struct(T, ZeroRecord(T))
        item == txGet(tx, gk)
    IN  IF item.err = ErrKeyNotFound
        THEN [err |-> ErrNotFound, tx |-> tx]
        ELSE \* the error of the decode inside item.Value is not looked at
             LET decoded == decode(item.val, value).v
                 del == txDelete(tx, gk)
             IN  IF del.err # Nil THEN del
                 ELSE indexDelete(storer, del.tx, gk, decoded)

---------------------------------------------------------------------------
(* Queries.  A query is a chain of one criterion on a field, or the nil    *)
(* query (field = "") that matches every record, with an optional          *)
(* .Index(index) directive (index = "" for none), the queries disjoined to *)
(* it with Or (ors), and the modifiers of the whole result: Skip, Limit    *)
(* (0 for none), SortBy (sort = "" for none) and Reverse.  The tests of a  *)
(* criterion are Eq(val), Eq(nil) and a MatchFunc that asks, by a          *)
(* sub-query, whether more than one record holds the record's value of the *)
(* field.  A query result is a sequence of [key, value]: the record key    *)
(* and the decoded record.                                                 *)

NilQuery == [field |-> "", test |-> "Eq", val |-> Zero, index |-> "", ors |-> <<>>,
             skip |-> 0, limit |-> 0, sort |-> "", reverse |-> FALSE]

Where(field, val, index) == [NilQuery EXCEPT !.field = field, !.val = val, !.index = index]

Or(q, q2) == [q EXCEPT !.ors = Append(@, q2)]

Skip(q, n) == [q EXCEPT !.skip = n]

Limit(q, n) == [q EXCEPT !.limit = n]

SortBy(q, field) == [q EXCEPT !.sort = field]

Reverse(q) == [q EXCEPT !.reverse = TRUE]

\* the keys under the type prefix, in iteration order
typeKeys(tx, T) ==
    SortedBytes({k \in DOMAIN tx.kv : HasPrefix(k, typePrefix(newStorer(T).Type))})

\* a comparison of the field with a value, evaluated on a decoded record
matchesField(q, rec) ==
    IF q.field = "" THEN [err |-> Nil, ok |-> TRUE]
    ELSE IF q.test = "EqNil" THEN [err |-> ErrTypeMismatch, ok |-> FALSE]
    ELSE [err |-> Nil, ok |-> rec[q.field] = q.val]

\* as SubQuery, with the records loaded from the store as it is when the
\* sub-query runs, not from the transaction of the outer query
RECURSIVE SubQuery_ReadsStore(_, _, _, _, _)
SubQuery_ReadsStore(keys, tx, T, q, out) ==
    IF keys = <<>> THEN [err |-> Nil, out |-> out]
    ELSE LET k == Head(keys)
             val == decode(IF k \in DOMAIN db THEN db[k] ELSE tx.kv[k], Struct(T, ZeroRecord(T)))
             ok == matchesField(q, val.v)
         IN  IF val.err # Nil THEN [err |-> val.err, out |-> <<>>]
             ELSE IF ok.err # Nil THEN [err |-> ok.err, out |-> <<>>]
             ELSE SubQuery_ReadsStore(Tail(keys), tx, T, q,
                                      IF ok.ok THEN Append(out, [key |-> k, value |-> val.v])
                                      ELSE out)

\* the sub-query of a MatchFunc, a comparison run as a full scan in the
\* transaction of the outer query
RECURSIVE SubQuery(_, _, _, _, _)
SubQuery(keys, tx, T, q, out) ==
    IF keys = <<>> THEN [err |-> Nil, out |-> out]
    ELSE LET k == Head(keys)
             val == decode(tx.kv[k], Struct(T, ZeroRecord(T)))
             ok == matchesField(q, val.v)
         IN  IF val.err # Nil THEN [err |-> val.err, out |-> <<>>]
             ELSE IF ok.err # Nil THEN [err |-> ok.err, out |-> <<>>]
             ELSE SubQuery(Tail(keys), tx, T, q,
                           IF ok.ok THEN Append(out, [key |-> k, value |-> val.v])
                           ELSE out)

\* the criterion evaluated in memory on a decoded record
matchesAllCriteria(tx, T, q, rec) ==
    IF q.field # "" /\ q.test = "MatchFunc"
    THEN LET sub == SubQuery(typeKeys(tx, T), tx, T, Where(q.field, rec[q.field], ""), <<>>)
         IN  [err |-> sub.err, ok |-> sub.err = Nil /\ Len(sub.out) > 1]
    ELSE matchesField(q, rec)

\* full type-prefix scan: every key under the type prefix, in key order
RECURSIVE scanRecords(_, _, _, _, _)
scanRecords(keys, tx, T, q, out) ==
    IF keys = <<>> THEN [err |-> Nil, out |-> out]
    ELSE LET k == Head(keys)
             val == decode(tx.kv[k], Struct(T, ZeroRecord(T)))
             ok == matchesAllCriteria(tx, T, q, val.v)
         IN  IF val.err # Nil THEN [err |-> val.err, out |-> <<>>]
             ELSE IF ok.err # Nil THEN [err |-> ok.err, out |-> <<>>]
             ELSE scanRecords(Tail(keys), tx, T, q,
                              IF ok.ok
                              THEN Append(out, [key |-> k, value |-> val.v])
                              ELSE out)

\* the entries of an index in iteration order, each as the encoded field
\* value it is filed under and the record key it refers to
indexEntries(tx, storer, name) ==
    IF storer.Indexes[name].Unique
    THEN LET p == uniqueKeyPrefix(storer.Type, name)
             ks == SortedBytes({k \in DOMAIN tx.kv : HasPrefix(k, p)})
         IN  [i \in 1..Len(ks) |->
                [indexKey |-> SubSeq(ks[i], Len(p) + 1, Len(ks[i])),
                 gk |-> decode(tx.kv[ks[i]], Bytes(<<>>)).v]]
    ELSE LET p == indexKeyPrefix(storer.Type, name)
             ks == SortedBytes({k \in DOMAIN tx.kv : HasPrefix(k, p)})
         IN  [i \in 1..Len(ks) |->
                [indexKey |-> SubSeq(ks[i], Len(p) + 1, Len(p) + 2),
                 gk |-> SubSeq(ks[i], Len(p) + 3, Len(ks[i]))]]

\* index-driven scan: an Eq criterion on the indexed field is decided on the
\* index value; the records the surviving entries refer to are loaded and
\* the remaining criteria are evaluated on them
RECURSIVE scanIndex(_, _, _, _, _)
scanIndex(entries, tx, T, q, out) ==
    IF entries = <<>> THEN [err |-> Nil, out |-> out]
    ELSE LET e == Head(entries)
             iv == decode(e.indexKey, Str(Zero))
             onIndex == q.field = q.index /\ q.test = "Eq"
         IN  IF iv.err # Nil THEN [err |-> iv.err, out |-> <<>>]
             ELSE IF onIndex /\ iv.v # q.val
             THEN scanIndex(Tail(entries), tx, T, q, out)
             ELSE LET item == txGet(tx, e.gk)
                      val == decode(item.val, Struct(T, ZeroRecord(T)))
                      ok == IF onIndex THEN [err |-> Nil, ok |-> TRUE]
                            ELSE matchesAllCriteria(tx, T, q, val.v)
                  IN  IF item.err # Nil THEN [err |-> item.err, out |-> <<>>]
                      ELSE IF val.err # Nil THEN [err |-> val.err, out |-> <<>>]
                      ELSE IF ok.err # Nil THEN [err |-> ok.err, out |-> <<>>]
                      ELSE scanIndex(Tail(entries), tx, T, q,
                                     IF ok.ok
                                     THEN Append(out, [key |-> e.gk, value |-> val.v])
                                     ELSE out)

\* one chain of criteria, planned and run on its own
runChain(tx, T, q) ==
    LET storer == newStorer(T)
    IN  IF q.index # ""
        THEN IF q.index \notin DOMAIN storer.Indexes
             THEN [err |-> ErrBadIndex, out |-> <<>>]
             ELSE scanIndex(indexEntries(tx, storer, q.index), tx, T, q, <<>>)
        ELSE scanRecords(typeKeys(tx, T), tx, T, q, <<>>)

\* runOrs, but the records of a chain are appended whether or not their keys
\* are among those found so far
RECURSIVE runOrs_KeepsDuplicates(_, _, _)
runOrs_KeepsDuplicates(tx, T, chains) ==
    IF chains = <<>> THEN [err |-> Nil, out |-> <<>>]
    ELSE LET before == runOrs_KeepsDuplicates(tx, T, SubSeq(chains, 1, Len(chains) - 1))
             r == runChain(tx, T, chains[Len(chains)])
         IN  IF before.err # Nil THEN before
             ELSE IF r.err # Nil THEN [err |-> r.err, out |-> <<>>]
             ELSE [err |-> Nil, out |-> before.out \o r.out]

\* the records found by the chains before, then those of the next chain
\* but for the keys already among them
appendNew(before, next) ==
    IF before.err # Nil THEN before
    ELSE IF next.err # Nil THEN [err |-> next.err, out |-> <<>>]
    ELSE [err |-> Nil,
          out |-> before.out \o
                  SelectSeq(next.out,
                            LAMBDA x : x.key \notin {before.out[i].key : i \in 1..Len(before.out)})]

\* the chains of a disjunction, each run on its own, one after the other
RECURSIVE runOrs(_, _, _)
runOrs(tx, T, chains) ==
    IF chains = <<>> THEN [err |-> Nil, out |-> <<>>]
    ELSE appendNew(runOrs(tx, T, SubSeq(chains, 1, Len(chains) - 1)),
                   runChain(tx, T, chains[Len(chains)]))

\* stable sort of the records by a field ("" for no SortBy)
RECURSIVE sortRecords(_, _)
sortRecords(records, field) ==
    IF records = <<>> \/ field = "" THEN records
    ELSE LET first == CHOOSE i \in 1..Len(records) :
                         /\ \A j \in 1..Len(records) :
                                ~BytesLess(<<records[j].value[field]>>, <<records[i].value[field]>>)
                         /\ \A j \in 1..(i - 1) :
                                BytesLess(<<records[i].value[field]>>, <<records[j].value[field]>>)
         IN  <<records[first]>> \o
             sortRecords(SubSeq(records, 1, first - 1) \o
                         SubSeq(records, first + 1, Len(records)), field)

reverseRecords(records, reverse) ==
    IF reverse THEN [i \in 1..Len(records) |-> records[Len(records) + 1 - i]]
    ELSE records

skipRecords(records, n) == SubSeq(records, n + 1, Len(records))

limitRecords(records, n) ==
    IF n = 0 \/ n >= Len(records) THEN records ELSE SubSeq(records, 1, n)

\* what the modifiers of q make of the records found: Sort, Reverse, Skip, Limit
postProcess(q, found) ==
    IF found.err # Nil THEN found
    ELSE [err |-> Nil,
          out |-> limitRecords(skipRecords(reverseRecords(sortRecords(found.out, q.sort),
                                                          q.reverse),
                                           q.skip),
                               q.limit)]

\* runQuery, but the result is cut to Limit records before Skip drops any
runQuery_LimitsFirst(tx, T, q) ==
    LET found == runOrs(tx, T, <<q>> \o q.ors)
        ordered == reverseRecords(sortRecords(found.out, q.sort), q.reverse)
    IN  IF found.err # Nil THEN found
        ELSE [err |-> Nil, out |-> skipRecords(limitRecords(ordered, q.limit), q.skip)]

\* the result of a query: the chains run, then the modifiers applied
runQuery(tx, T, q) == postProcess(q, runOrs(tx, T, <<q>> \o q.ors))

TxFind(tx, T, q) == runQuery(tx, T, q)

\* the first record found, or ErrNotFound
firstRecord(found) ==
    IF found.err # Nil THEN found
    ELSE IF found.out = <<>> THEN [err |-> ErrNotFound, out |-> <<>>]
    ELSE [err |-> Nil, out |-> <<found.out[1]>>]

\* FindOne: the query limited to one record
TxFindOne(tx, T, q) == firstRecord(runQuery(tx, T, Limit(q, 1)))

countFound(found) ==
    IF found.err # Nil THEN [err |-> found.err, count |-> 0]
    ELSE [err |-> Nil, count |-> Len(found.out)]

\* TxCount, but every record the criteria match is counted, cut or not
TxCount_IgnoresCut(tx, T, q) == countFound(runQuery(tx, T, Limit(Skip(q, 0), 0)))

TxCount(tx, T, q) == countFound(runQuery(tx, T, q))

\* the mutator of an UpdateMatching: sets one field of the record, or
\* exchanges it with the field swap, or returns an error on a record that
\* holds failOn in the field
NoFail == "-"

\* Mutate, but the update function is called twice on the record
Mutate_Twice(mut, rec) ==
    IF rec[mut.field] = mut.failOn THEN [err |-> ErrMutator, v |-> rec]
    ELSE IF mut.swap # "" THEN [err |-> Nil, v |-> rec]
    ELSE [err |-> Nil, v |-> [rec EXCEPT ![mut.field] = mut.val]]

Mutate(mut, rec) ==
    IF rec[mut.field] = mut.failOn THEN [err |-> ErrMutator, v |-> rec]
    ELSE IF mut.swap # ""
    THEN [err |-> Nil, v |-> [rec EXCEPT ![mut.field] = rec[mut.swap],
                                         ![mut.swap] = rec[mut.field]]]
    ELSE [err |-> Nil, v |-> [rec EXCEPT ![mut.field] = mut.val]]

RECURSIVE updateEach(_, _, _, _)
updateEach(records, storer, tx, mut) ==
    IF records = <<>> THEN [err |-> Nil, tx |-> tx]
    ELSE LET r == Head(records)
             m == Mutate(mut, r.value)
             u == updateRecord(storer, tx, r.key, r.value, m.v)
         IN  IF m.err # Nil THEN [err |-> m.err, tx |-> tx]
             ELSE IF u.err # Nil THEN u
             ELSE updateEach(Tail(records), storer, u.tx, mut)

\* the records found are updated, unless the query failed
updateFound(found, storer, tx, mut) ==
    IF found.err # Nil THEN [err |-> found.err, tx |-> tx]
    ELSE updateEach(found.out, storer, tx, mut)

updateQuery(tx, T, q, mut) == updateFound(runQuery(tx, T, q), newStorer(T), tx, mut)

TxUpdateMatching(tx, T, q, mut) == updateQuery(tx, T, q, mut)

RECURSIVE deleteEach(_, _, _)
deleteEach(records, storer, tx) ==
    IF records = <<>> THEN [err |-> Nil, tx |-> tx]
    ELSE LET r == Head(records)
             del == txDelete(tx, r.key)
             d == IF del.err # Nil THEN del
                  ELSE indexDelete(storer, del.tx, r.key, r.value)
         IN  IF d.err # Nil THEN d
             ELSE deleteEach(Tail(records), storer, d.tx)

\* the records found are deleted, unless the query failed
deleteFound(found, storer, tx) ==
    IF found.err # Nil THEN [err |-> found.err, tx |-> tx]
    ELSE deleteEach(found.out, storer, tx)

deleteQuery(tx, T, q) == deleteFound(runQuery(tx, T, q), newStorer(T), tx)

\* TxDeleteMatching, but the query is run again once the first match is deleted
TxDeleteMatching_QueriesAgain(tx, T, q) ==
    LET found == runQuery(tx, T, q)
        d == deleteEach(<<Head(found.out)>>, newStorer(T), tx)
    IN  IF found.err # Nil \/ found.out = <<>> THEN [err |-> found.err, tx |-> tx]
        ELSE IF d.err # Nil THEN d
        ELSE deleteQuery(d.tx, T, q)

TxDeleteMatching(tx, T, q) == deleteQuery(tx, T, q)

---------------------------------------------------------------------------
(* The store and the calls on it.  db is the committed content of the      *)
(* engine.  The caller makes one call at a time: a call runs to its end in *)
(* one step and leaves in last its name, its arguments and what it         *)
(* returned (err, and out: the records of a Get or Find, the caller's      *)
(* record as an Insert leaves it); the caller then takes the result        *)
(* (Return) and is free to make the next call.  sequences is the store's   *)
(* map of sequences; issued records, per type, the keys that Insert drew   *)
(* from the type's sequence, in the order of the calls.                    *)

NoRecord == <<>>

NoMutator == [field |-> "", val |-> Zero, failOn |-> NoFail, swap |-> ""]

\* changed tells whether the call left the store different from before
Call(op, T, key, data, q, mut, err, out, changed) ==
    [op |-> op, typ |-> T, key |-> key, data |-> data, q |-> q, mut |-> mut,
     err |-> err, out |-> out, changed |-> changed]

\* the queries and mutators the callers use on type T
Queries(T) ==
    {NilQuery} \cup {Where(f, v, i) : f \in FieldNames(T), v \in ValsOf(T),
                                      i \in {""} \cup FieldNames(T)}

Mutators(T) ==
    {[field |-> f, val |-> v, failOn |-> NoFail, swap |-> ""] :
        f \in FieldNames(T), v \in ValsOf(T)}

\* the single chains of criteria on type T, run as a full scan: no criteria,
\* Where(f).Eq(v), Where(f).Eq(nil), and Where(f).MatchFunc(ra =>
\* ra.SubQuery(Where(f).Eq(ra.Field())) finds more than one)
Criteria(T) ==
    {NilQuery} \cup {Where(f, v, "") : f \in FieldNames(T), v \in ValsOf(T)}
               \cup {[NilQuery EXCEPT !.field = f, !.test = "EqNil"] : f \in FieldNames(T)}
               \cup {[NilQuery EXCEPT !.field = f, !.test = "MatchFunc"] : f \in FieldNames(T)}

\* the chains, each with every .Index directive on a field of T
Indexed(T) == {[q EXCEPT !.index = i] : q \in Criteria(T), i \in FieldNames(T)}

\* the queries of the callers that read: the chains, full scan or indexed;
\* the disjunctions q1.Or(q2) of two chains; the Eq chains, and the
\* disjunctions of a chain on the last field of T with a chain on another
\* field, cut with Skip and Limit; the indexed Eq chains cut with Skip or
\* Limit; the Eq chains sorted by a field, as sorted or reversed, cut or not
FindQueries(T) ==
    LET eq == {q \in Criteria(T) : q.test = "Eq"}
        lead == StructFields(T)[Len(StructFields(T))].name
        pairs == {p \in eq \X eq : p[1].field = lead /\ p[2].field \notin {"", lead}}
        driven == {q \in Indexed(T) : q.test = "Eq"}
    IN  Criteria(T) \cup Indexed(T)
            \cup {Or(q1, q2) : q1 \in Criteria(T), q2 \in Criteria(T)}
            \cup {Limit(Skip(q, a), b) : q \in eq \cup {Or(p[1], p[2]) : p \in pairs},
                                        a \in 0..MaxSkip, b \in 0..MaxLimit}
            \cup {Skip(q, 1) : q \in driven} \cup {Limit(q, 1) : q \in driven}
            \cup {Limit(Skip(s, a), b) :
                     s \in {SortBy(q, f) : q \in eq, f \in FieldNames(T)}
                        \cup {Reverse(SortBy(q, f)) : q \in eq, f \in FieldNames(T)},
                     a \in {0, 1}, b \in {0, 1}}

\* the queries of the callers of UpdateMatching and DeleteMatching: the
\* chains, and the chains on no field or on the last field of T cut with
\* Skip, with Limit and with both
MatchingQueries(T) ==
    LET lead == StructFields(T)[Len(StructFields(T))].name
        cut == {q \in Criteria(T) : q.test = "Eq" /\ q.field \in {"", lead}}
    IN  Criteria(T) \cup {Skip(q, 1) : q \in cut} \cup {Limit(q, 1) : q \in cut}
                    \cup {Limit(Skip(q, 1), 1) : q \in cut}

\* the update functions of the callers of UpdateMatching: those that set a
\* field, those that return an error on a record that already holds the
\* value they set, and the one that exchanges the values of the first two
\* fields
MatchingMutators(T) ==
    Mutators(T) \cup {[m EXCEPT !.failOn = m.val] : m \in Mutators(T)}
                \cup {[field |-> StructFields(T)[1].name, val |-> Zero, failOn |-> NoFail,
                       swap |-> StructFields(T)[i].name] : i \in {2} \cap DOMAIN StructFields(T)}

\* the goroutines that call into the store besides the one caller
Goroutines == {1, 2}

\* a goroutine outside any call
Idle == [pc |-> "idle", typ |-> <<>>, seq |-> 0, key |-> 0]

\* no read transaction is open
NoReader == [open |-> FALSE, tx |-> NewTransaction(<<>>, FALSE), typ |-> <<>>, q |-> NilQuery,
             res |-> [err |-> Nil, out |-> <<>>]]

\* no call is pending
NoCall == Call("", <<>>, "", NoRecord, NilQuery, NoMutator, Nil, <<>>, FALSE)

Init ==
    /\ db = [k \in {} |-> <<>>]
    /\ last = NoCall
    /\ sequences = [T \in TypeNames \cup {SequenceTest} |->
                       [loaded |-> FALSE, next |-> 0, leased |-> 0]]
    /\ issued = [T \in TypeNames \cup {SequenceTest} |-> <<>>]
    /\ codec = "gob"
    /\ engine = [open |-> TRUE, garbage |-> 0, discarded |-> 0, inflight |-> 0]
    /\ gc = [pc |-> "wait", tick |-> FALSE, calls |-> 0]
    /\ handles = <<>>
    /\ goroutines = [g \in Goroutines |-> Idle]
    /\ reader = NoReader

Insert(T, key, data) ==
    LET res == TxInsert(NewTransaction(db, TRUE), key, T, data)
    IN  /\ last = NoCall
        /\ key = NextSequence => Len(issued[Elem(T)]) < MaxSeq
        /\ db' = DBUpdate(db, res)
        /\ sequences' = res.sequences
        /\ issued' = IF key = NextSequence
                      THEN [issued EXCEPT ![Elem(T)] = Append(@, res.key)]
                      ELSE issued
        /\ last' = Call("Insert", T, key, data, NilQuery, NoMutator, res.err,
                        <<res.data>>, db' # db)
        /\ UNCHANGED process

Update(T, key, data) ==
    LET res == TxUpdate(NewTransaction(db, TRUE), key, T, data)
    IN  /\ last = NoCall
        /\ db' = DBUpdate(db, res)
        /\ last' = Call("Update", T, key, data, NilQuery, NoMutator, res.err, <<>>,
                        db' # db)
        /\ UNCHANGED <<sequences, issued>>
        /\ UNCHANGED process

Upsert(T, key, data) ==
    LET res == TxUpsert(NewTransaction(db, TRUE), key, T, data)
    IN  /\ last = NoCall
        /\ db' = DBUpdate(db, res)
        /\ last' = Call("Upsert", T, key, data, NilQuery, NoMutator, res.err, <<>>,
                        db' # db)
        /\ UNCHANGED <<sequences, issued>>
        /\ UNCHANGED process

Delete(T, key) ==
    LET res == TxDelete(NewTransaction(db, TRUE), key, T)
    IN  /\ last = NoCall
        /\ db' = DBUpdate(db, res)
        /\ last' = Call("Delete", T, key, NoRecord, NilQuery, NoMutator, res.err, <<>>,
                        db' # db)
        /\ UNCHANGED <<sequences, issued>>
        /\ UNCHANGED process

UpdateMatching(T, q, mut) ==
    LET res == TxUpdateMatching(NewTransaction(db, TRUE), T, q, mut)
    IN  /\ last = NoCall
        /\ db' = DBUpdate(db, res)
        /\ last' = Call("UpdateMatching", T, "", NoRecord, q, mut, res.err, <<>>,
                        db' # db)
        /\ UNCHANGED <<sequences, issued>>
        /\ UNCHANGED process

DeleteMatching(T, q) ==
    LET res == TxDeleteMatching(NewTransaction(db, TRUE), T, q)
    IN  /\ last = NoCall
        /\ db' = DBUpdate(db, res)
        /\ last' = Call("DeleteMatching", T, "", NoRecord, q, NoMutator, res.err, <<>>,
                        db' # db)
        /\ UNCHANGED <<sequences, issued>>
        /\ UNCHANGED process

Get(T, key) ==
    LET res == TxGet(NewTransaction(db, FALSE), key, T)
    IN  /\ last = NoCall
        /\ db' = db
        /\ last' = Call("Get", T, key, NoRecord, NilQuery, NoMutator, res.err,
                        IF res.err = Nil THEN <<res.v>> ELSE <<>>, FALSE)
        /\ UNCHANGED <<sequences, issued>>
        /\ UNCHANGED process

Find(T, q) ==
    LET res == TxFind(NewTransaction(db, FALSE), T, q)
    IN  /\ last = NoCall
        /\ db' = db
        /\ last' = Call("Find", T, "", NoRecord, q, NoMutator, res.err, res.out, FALSE)
        /\ UNCHANGED <<sequences, issued>>
        /\ UNCHANGED process

FindOne(T, q) ==
    LET res == TxFindOne(NewTransaction(db, FALSE), T, q)
    IN  /\ last = NoCall
        /\ db' = db
        /\ last' = Call("FindOne", T, "", NoRecord, q, NoMutator, res.err, res.out, FALSE)
        /\ UNCHANGED <<sequences, issued>>
        /\ UNCHANGED process

Count(T, q) ==
    LET res == TxCount(NewTransaction(db, FALSE), T, q)
    IN  /\ last = NoCall
        /\ db' = db
        /\ last' = Call("Count", T, "", NoRecord, q, NoMutator, res.err, <<res.count>>,
                        FALSE)
        /\ UNCHANGED <<sequences, issued>>
        /\ UNCHANGED process

\* The Tx forms called inside Badger().View, that is with a read-only
\* transaction; changed tells whether the transaction held a write when
\* the call returned.
ViewTxInsert(T, key, data) ==
    LET res == TxInsert(NewTransaction(db, FALSE), key, T, data)
    IN  /\ last = NoCall
        /\ db' = DBView(db, res)
        /\ last' = Call("TxInsert", T, key, data, NilQuery, NoMutator, res.err,
                        <<res.data>>, res.tx.kv # db)
        /\ UNCHANGED <<sequences, issued>>
        /\ UNCHANGED process

ViewTxUpdate(T, key, data) ==
    LET res == TxUpdate(NewTransaction(db, FALSE), key, T, data)
    IN  /\ last = NoCall
        /\ db' = DBView(db, res)
        /\ last' = Call("TxUpdate", T, key, data, NilQuery, NoMutator, res.err, <<>>,
                        res.tx.kv # db)
        /\ UNCHANGED <<sequences, issued>>
        /\ UNCHANGED process

ViewTxUpsert(T, key, data) ==
    LET res == TxUpsert(NewTransaction(db, FALSE), key, T, data)
    IN  /\ last = NoCall
        /\ db' = DBView(db, res)
        /\ last' = Call("TxUpsert", T, key, data, NilQuery, NoMutator, res.err, <<>>,
                        res.tx.kv # db)
        /\ UNCHANGED <<sequences, issued>>
        /\ UNCHANGED process

ViewTxDelete(T, key) ==
    LET res == TxDelete(NewTransaction(db, FALSE), key, T)
    IN  /\ last = NoCall
        /\ db' = DBView(db, res)
        /\ last' = Call("TxDelete", T, key, NoRecord, NilQuery, NoMutator, res.err, <<>>,
                        res.tx.kv # db)
        /\ UNCHANGED <<sequences, issued>>
        /\ UNCHANGED process

\* a write through the engine handle that Badger() returns: data is put at
\* key as it is
BadgerSet(key, data) ==
    LET res == txSet(NewTransaction(db, TRUE), key, data)
    IN  /\ last = NoCall
        /\ db' = DBUpdate(db, res)
        /\ last' = Call("Badger.Set", <<>>, "", NoRecord, NilQuery, NoMutator, res.err,
                        <<key, data>>, db' # db)
        /\ UNCHANGED <<sequences, issued>>
        /\ UNCHANGED process

\* Find in a goroutine of its own: Badger().View opens a read-only
\* transaction on the store as committed at that moment
BeginFind(T, q) ==
    /\ ~reader.open
    /\ reader' = [open |-> TRUE, tx |-> NewTransaction(db, FALSE), typ |-> T, q |-> q,
                  res |-> NoReader.res]
    /\ UNCHANGED <<db, last, sequences, issued, codec, engine, gc, handles, goroutines>>

\* the query runs in that transaction, while the caller's writes commit,
\* and Find returns
EndFind ==
    /\ reader.open
    /\ reader' = [reader EXCEPT !.open = FALSE, !.tx = NoReader.tx,
                                !.res = TxFind(reader.tx, reader.typ, reader.q)]
    /\ UNCHANGED <<db, last, sequences, issued, codec, engine, gc, handles, goroutines>>

\* Open of another store in the same process, with the default pair or
\* with json.Marshal and json.Unmarshal: it assigns the package's pair.
\* The other store has an engine of its own
OpenOther(options) ==
    /\ last = NoCall
    /\ codec' = options.Encoder
    /\ last' = Call("Open", <<>>, "", NoRecord, NilQuery, NoMutator, Nil, <<>>, FALSE)
    /\ UNCHANGED <<db, sequences, issued, engine, gc, handles, goroutines, reader>>

---------------------------------------------------------------------------
(* Insert(NextSequence) called from goroutines, step by step: getSequence  *)
(* reads the store's map, asks the engine for a sequence when the map has  *)
(* none for the type, stores it in the map and draws the key from it; the  *)
(* record is then written.  handles holds every sequence the engine handed *)
(* out (stored: the map holds it); sequences holds, for each type, the     *)
(* state of the sequence in the map.                                       *)

\* the unsigned integer n as the callers and the codec write it
Uint64Name(n) ==
    IF n < SequenceBandwith THEN Uint64Names[n + 1] ELSE LeasedNames[n - SequenceBandwith + 1]

\* the handle that the map holds for a type (0: none)
Loaded(typeName) ==
    IF \E h \in DOMAIN handles : handles[h].typ = typeName /\ handles[h].stored
    THEN CHOOSE h \in DOMAIN handles : handles[h].typ = typeName /\ handles[h].stored
    ELSE 0

\* the value the engine holds under the key of a sequence: the end of the
\* last lease it granted
LeaseBase(typeName) ==
    LET granted == {handles[h].leased : h \in {i \in DOMAIN handles : handles[i].typ = typeName}}
    IN  IF granted = {} THEN 0 ELSE CHOOSE m \in granted : \A n \in granted : n <= m

\* a goroutine calls Insert(NextSequence, data) for a record of type T
GoInsert(g, T) ==
    /\ goroutines[g].pc = "idle"
    /\ engine.open
    /\ Len(issued[T]) < MaxSeq
    /\ goroutines' = [goroutines EXCEPT ![g] = [Idle EXCEPT !.pc = "load", !.typ = T]]
    /\ UNCHANGED <<db, last, sequences, issued, codec, engine, gc, handles, reader>>

\* seq, ok := s.sequences.Load(typeName)
SequencesLoad(g) ==
    /\ goroutines[g].pc = "load"
    /\ goroutines' = [goroutines EXCEPT ![g] =
           IF sequences[goroutines[g].typ].loaded
           THEN [@ EXCEPT !.pc = "next", !.seq = Loaded(goroutines[g].typ)]
           ELSE [@ EXCEPT !.pc = "get"]]
    /\ UNCHANGED <<db, last, sequences, issued, codec, engine, gc, handles, reader>>

\* newSeq, err := s.Badger().GetSequence([]byte(typeName), s.sequenceBandwith)
BadgerGetSequence(g) ==
    /\ goroutines[g].pc = "get"
    /\ handles' = Append(handles, [typ |-> goroutines[g].typ,
                                   next |-> LeaseBase(goroutines[g].typ),
                                   leased |-> LeaseBase(goroutines[g].typ) + SequenceBandwith,
                                   released |-> FALSE, stored |-> FALSE])
    /\ goroutines' = [goroutines EXCEPT ![g] = [@ EXCEPT !.pc = "store", !.seq = Len(handles')]]
    /\ UNCHANGED <<db, last, sequences, issued, codec, engine, gc, reader>>

\* s.sequences.Store(typeName, newSeq): the entry of the type now holds newSeq
SequencesStore(g) ==
    LET T == goroutines[g].typ
        h == goroutines[g].seq
    IN  /\ goroutines[g].pc = "store"
        /\ handles' = [i \in DOMAIN handles |->
                          IF handles[i].typ = T
                          THEN [handles[i] EXCEPT !.stored = (i = h)]
                          ELSE handles[i]]
        /\ sequences' = [sequences EXCEPT ![T] =
                            [loaded |-> TRUE, next |-> handles[h].next, leased |-> handles[h].leased]]
        /\ goroutines' = [goroutines EXCEPT ![g] = [@ EXCEPT !.pc = "next"]]
        /\ UNCHANGED <<db, last, issued, codec, engine, gc, reader>>

\* return seq.(*badger.Sequence).Next()
SequenceNextValue(g) ==
    LET T == goroutines[g].typ
        h == goroutines[g].seq
        n == SequenceNext([loaded |-> TRUE, next |-> handles[h].next, leased |-> handles[h].leased])
    IN  /\ goroutines[g].pc = "next"
        /\ handles' = [handles EXCEPT ![h] = [@ EXCEPT !.next = n.seq.next, !.leased = n.seq.leased]]
        /\ sequences' = IF handles[h].stored THEN [sequences EXCEPT ![T] = n.seq] ELSE sequences
        /\ issued' = [issued EXCEPT ![T] = Append(@, Uint64Name(n.val))]
        /\ goroutines' = [goroutines EXCEPT ![g] = [@ EXCEPT !.pc = "put", !.key = n.val]]
        /\ UNCHANGED <<db, last, codec, engine, gc, reader>>

\* the record is written under the key drawn, and Insert returns
GoPut(g) ==
    LET T == goroutines[g].typ
        res == TxInsert(NewTransaction(db, TRUE), Uint64Name(goroutines[g].key), T, ZeroRecord(T))
    IN  /\ goroutines[g].pc = "put"
        /\ db' = DBUpdate(db, res)
        /\ goroutines' = [goroutines EXCEPT ![g] = [@ EXCEPT !.pc = "idle"]]
        /\ UNCHANGED <<last, sequences, issued, codec, engine, gc, handles, reader>>

\* the orders in which Range may visit the entries of the map
RangeOrders ==
    LET held == {h \in DOMAIN handles : handles[h].stored}
    IN  {o \in [1..Cardinality(held) -> held] : \A i, j \in DOMAIN o : o[i] = o[j] => i = j}

\* Close: Range releases the sequences of the map one by one and stops at
\* the first Release that returns an error (the failAt-th; 0: none does);
\* Close then returns that error, and closes the engine only when there
\* was none
Close(order, failAt) ==
    LET done == {order[i] : i \in {j \in DOMAIN order : failAt = 0 \/ j < failAt}}
    IN  /\ last = NoCall
        /\ engine.open
        /\ \A g \in Goroutines : goroutines[g].pc = "idle"
        /\ handles' = [h \in DOMAIN handles |->
                          IF h \in done THEN [handles[h] EXCEPT !.released = TRUE]
                          ELSE handles[h]]
        /\ engine' = [engine EXCEPT !.open = (failAt # 0)]
        /\ last' = Call("Close", <<>>, "", NoRecord, NilQuery, NoMutator,
                        IF failAt = 0 THEN Nil ELSE ErrEngine, order, TRUE)
        /\ UNCHANGED <<db, sequences, issued, codec, gc, goroutines, reader>>

---------------------------------------------------------------------------
(* The goroutine that Open starts: runStorageGC waits for the ticker and   *)
(* runs storageGC on every tick.  engine.garbage counts the value-log      *)
(* files worth rewriting, engine.inflight the RunValueLogGC calls that     *)
(* have not returned; gc.calls counts the calls of the current cycle.      *)

\* the writes to the store leave a value-log file that GC can rewrite
Discard ==
    /\ engine.open
    /\ engine.discarded < MaxGarbage
    /\ engine' = [engine EXCEPT !.garbage = @ + 1, !.discarded = @ + 1]
    /\ UNCHANGED <<db, last, sequences, issued, codec, gc, handles, goroutines, reader>>

\* the ticker sends on timer.C, whose buffer holds one tick; a tick that
\* finds the buffer full is dropped
TimerFires ==
    /\ ~gc.tick
    /\ gc' = [gc EXCEPT !.tick = TRUE]
    /\ UNCHANGED <<db, last, sequences, issued, codec, engine, handles, goroutines, reader>>

\* case <-timer.C: storageGC(db)
GCWake ==
    /\ gc.pc = "wait"
    /\ gc.tick
    /\ gc' = [pc |-> "again", tick |-> FALSE, calls |-> 0]
    /\ UNCHANGED <<db, last, sequences, issued, codec, engine, handles, goroutines, reader>>

\* again: the call db.RunValueLogGC(0.5) begins
GCBegin ==
    /\ gc.pc = "again"
    /\ gc' = [gc EXCEPT !.pc = "called"]
    /\ engine' = [engine EXCEPT !.inflight = @ + 1]
    /\ UNCHANGED <<db, last, sequences, issued, codec, handles, goroutines, reader>>

\* RunValueLogGC of the engine: nil when a file was rewritten, an error
\* when there was none to rewrite or the engine is closed
RunValueLogGC(e) == IF e.open /\ e.garbage > 0 THEN Nil ELSE ErrEngine

\* storageGC as it would be if it made one call per tick
storageGC_Once(err) == "wait"

\* if err == nil { goto again }: where storageGC goes on after a call
storageGC(err) == IF err = Nil THEN "again" ELSE "wait"

\* the call returns
GCEnd ==
    LET err == RunValueLogGC(engine)
    IN  /\ gc.pc = "called"
        /\ engine' = [engine EXCEPT !.inflight = @ - 1,
                                    !.garbage = IF err = Nil THEN @ - 1 ELSE @]
        /\ gc' = [gc EXCEPT !.pc = storageGC(err), !.calls = @ + 1]
        /\ UNCHANGED <<db, last, sequences, issued, codec, handles, goroutines, reader>>

\* the caller takes the result of the call
Return ==
    /\ last # NoCall
    /\ last' = NoCall
    /\ db' = db
    /\ UNCHANGED <<sequences, issued>>
    /\ UNCHANGED process

Next ==
    \/ \E T \in TypeNames : \E key \in KeysOf(T), data \in Records(T) : Insert(T, key, data)
    \/ \E T \in TypeNames : \E key \in KeysOf(T), data \in Records(T) : Update(T, key, data)
    \/ \E T \in TypeNames : \E key \in KeysOf(T), data \in Records(T) : Upsert(T, key, data)
    \/ \E T \in TypeNames : \E key \in KeysOf(T) : Delete(T, key)
    \/ \E T \in TypeNames : \E q \in Queries(T), mut \in Mutators(T) : UpdateMatching(T, q, mut)
    \/ \E T \in TypeNames : \E q \in Queries(T) : DeleteMatching(T, q)
    \/ \E T \in TypeNames : \E key \in KeysOf(T) : Get(T, key)
    \/ \E T \in TypeNames : \E q \in Queries(T) : Find(T, q)
    \/ Return

Spec == Init /\ [][Next]_vars

\* the calls on a store of SequenceTest records: inserted by value and by
\* pointer, under keys of the caller and under keys of the sequence
NextKeyed ==
    \/ \E T \in {SequenceTest, Ptr(SequenceTest)} :
       \E key \in KeysOf(SequenceTest) \cup {NextSequence}, data \in Records(SequenceTest) :
           Insert(T, key, data)
    \/ \E key \in KeysOf(SequenceTest) : Delete(SequenceTest, key)
    \/ \E key \in KeysOf(SequenceTest) : Get(SequenceTest, key)
    \/ Return

SpecKeyed == Init /\ [][NextKeyed]_vars

\* the calls on a store of User records that is written by Insert and on
\* which the Tx forms are tried with read-only transactions
NextView ==
    \/ \E key \in KeysOf(User), data \in Records(User) : Insert(User, key, data)
    \/ \E key \in KeysOf(User), data \in Records(User) : ViewTxInsert(User, key, data)
    \/ \E key \in KeysOf(User), data \in Records(User) : ViewTxUpdate(User, key, data)
    \/ \E key \in KeysOf(User), data \in Records(User) : ViewTxUpsert(User, key, data)
    \/ \E key \in KeysOf(User) : ViewTxDelete(User, key)
    \/ Return

SpecView == Init /\ [][NextView]_vars

\* the calls on a store of User records that is written by Insert and read
\* by the queries
NextQuery ==
    \/ \E key \in KeysOf(User), data \in Records(User) : Insert(User, key, data)
    \/ \E q \in FindQueries(User) : Find(User, q)
    \/ \E q \in Criteria(User) \cup Indexed(User) : FindOne(User, q)
    \/ \E q \in Criteria(User) \cup Indexed(User) : Count(User, q)
    \/ Return

SpecQuery == Init /\ [][NextQuery]_vars

\* the calls on a store of User records that is written by Insert and by
\* the matching forms
NextMatching ==
    \/ \E key \in KeysOf(User), data \in Records(User) : Insert(User, key, data)
    \/ \E q \in MatchingQueries(User), mut \in MatchingMutators(User) :
           UpdateMatching(User, q, mut)
    \/ \E q \in MatchingQueries(User) : DeleteMatching(User, q)
    \/ Return

SpecMatching == Init /\ [][NextMatching]_vars

\* the Person records of the callers: one value in the unique field and
\* one in all the others
PersonRecords ==
    {[f \in FieldNames(Person) |-> IF f = "Email" THEN e ELSE v] :
        v \in ValsOf(Person), e \in ValsOf(Person)}

\* the calls on a store of User records into which the caller also writes,
\* through the engine handle, the encoding of a string where a record is
NextRaw ==
    \/ \E key \in KeysOf(User), data \in Records(User) : Insert(User, key, data)
    \/ \E key \in KeysOf(User), v \in ValsOf(User) :
           BadgerSet(encodeKey(key, User), DefaultEncode(Str(v)))
    \/ \E key \in KeysOf(User) : Delete(User, key)
    \/ \E key \in KeysOf(User) : Get(User, key)
    \/ Return

SpecRaw == Init /\ [][NextRaw]_vars

\* the calls on a store of Person records
NextTags ==
    \/ \E key \in KeysOf(Person), data \in PersonRecords : Insert(Person, key, data)
    \/ \E key \in KeysOf(Person), data \in PersonRecords : Update(Person, key, data)
    \/ \E key \in KeysOf(Person) : Delete(Person, key)
    \/ \E key \in KeysOf(Person) : Get(Person, key)
    \/ Return

SpecTags == Init /\ [][NextTags]_vars

\* the calls on a store that holds records of two types, the name of one
\* beginning with the name of the other
NextTypes ==
    \/ \E T \in {Item, ItemTest}, key \in Keys : \E data \in Records(T) : Insert(T, key, data)
    \/ \E T \in {Item, ItemTest}, key \in Keys : Delete(T, key)
    \/ \E q \in Criteria(Item) : Find(Item, q)
    \/ \E q \in Criteria(Item) : Count(Item, q)
    \/ \E q \in Criteria(Item), mut \in Mutators(Item) : UpdateMatching(Item, q, mut)
    \/ \E q \in Criteria(Item) : DeleteMatching(Item, q)
    \/ Return

SpecTypes == Init /\ [][NextTypes]_vars

\* the calls on a store of User records opened with the default options,
\* beside which the process opens other stores
NextCodec ==
    \/ \E c \in {"gob", "json"} : OpenOther([Encoder |-> c, Decoder |-> c])
    \/ \E key \in KeysOf(User), data \in Records(User) : Insert(User, key, data)
    \/ \E key \in KeysOf(User) : Delete(User, key)
    \/ \E key \in KeysOf(User) : Get(User, key)
    \/ Return

SpecCodec == Init /\ [][NextCodec]_vars

\* the queries of the goroutine that reads: the chains that compare a field
\* with the first value or with the other records, full scan or indexed
ReaderQueries(T) ==
    {q \in Criteria(T) \cup Indexed(T) :
        q.test # "EqNil" /\ q.index \in {"", q.field} /\ q.val \in {"", ValNames[1]}}

\* the records of the goroutine that writes: two that share a Division and
\* one with another
WriterRecords ==
    {[Email |-> ValNames[1], Division |-> ValNames[1]],
     [Email |-> ValNames[2], Division |-> ValNames[1]],
     [Email |-> ValNames[1], Division |-> ValNames[2]]}

\* the calls of one goroutine that writes a store of User records and of
\* another that reads it with Find
NextSnapshot ==
    \/ \E key \in KeysOf(User), data \in WriterRecords : Insert(User, key, data)
    \/ \E key \in KeysOf(User), data \in WriterRecords : Update(User, key, data)
    \/ \E key \in KeysOf(User) : Delete(User, key)
    \/ Return
    \/ \E q \in ReaderQueries(User) : BeginFind(User, q)
    \/ EndFind

SpecSnapshot == Init /\ [][NextSnapshot]_vars

\* two goroutines that insert records of two types under keys of their
\* sequences, and the caller that closes the store when they are done
NextSequences ==
    \/ \E g \in Goroutines, T \in {SequenceTest, Item} : GoInsert(g, T)
    \/ \E g \in Goroutines : SequencesLoad(g)
    \/ \E g \in Goroutines : BadgerGetSequence(g)
    \/ \E g \in Goroutines : SequencesStore(g)
    \/ \E g \in Goroutines : SequenceNextValue(g)
    \/ \E g \in Goroutines : GoPut(g)
    \/ \E order \in RangeOrders : \E failAt \in 0..Len(order) : Close(order, failAt)
    \/ Return

SpecSequences == Init /\ [][NextSequences]_vars

\* the life of a store whose caller only opens and closes it, with the
\* goroutine of Open beside: the scheduler lets the goroutine run, and a
\* call into the engine returns
NextGC ==
    \/ Discard
    \/ TimerFires
    \/ GCWake
    \/ GCBegin
    \/ GCEnd
    \/ Close(<<>>, 0)
    \/ Return

SpecGC == Init /\ [][NextGC]_vars /\ WF_vars(GCWake) /\ WF_vars(GCBegin) /\ WF_vars(GCEnd)

---------------------------------------------------------------------------
(* What the properties below speak of: the records and index entries the   *)
(* store holds, read off the engine's content by the layout of the         *)
(* specification: record key "bh_" || T || encode(k), index entries under  *)
(* "_index:" || T || ":" || f || ":", unique entries under "_unique:" ...   *)

RecordKey(T, k) == <<"bh_">> \o T \o encode(KeyValue(k))

Live(kv, T, k) == RecordKey(T, k) \in DOMAIN kv

Stored(kv, T, k) == decode(kv[RecordKey(T, k)], Struct(T, ZeroRecord(T))).v

LiveKeys(kv, T) == {k \in KeysOf(T) : Live(kv, T, k)}

\* the fields of T that the tags declare as indexed, and as unique
IndexedFields(T) ==
    {StructFields(T)[i].name : i \in {j \in 1..Len(StructFields(T)) :
        \/ StructFields(T)[j].tagKey = "holdIndex"
        \/ StructFields(T)[j].tagKey = "hold" /\ StructFields(T)[j].tagVal \in {"index", "unique"}}}

UniqueFields(T) ==
    {StructFields(T)[i].name : i \in {j \in 1..Len(StructFields(T)) :
        StructFields(T)[j].tagKey = "hold" /\ StructFields(T)[j].tagVal = "unique"}}

\* the entries of index (T, f) that refer to the record key of k
IndexRefs(kv, T, f, k) ==
    IF f \in UniqueFields(T)
    THEN {e \in DOMAIN kv : /\ HasPrefix(e, <<"_unique:">> \o T \o <<":", f, ":">>)
                            /\ kv[e] = encode(Bytes(RecordKey(T, k)))}
    ELSE {e \in DOMAIN kv : /\ HasPrefix(e, <<"_index:">> \o T \o <<":", f, ":">>)
                            /\ Len(e) >= Len(RecordKey(T, k))
                            /\ SubSeq(e, Len(e) - Len(RecordKey(T, k)) + 1, Len(e)) =
                                   RecordKey(T, k)}

\* the entry of index (T, f) that files the record key of k under value v
FiledUnder(T, f, v, k) ==
    IF f \in UniqueFields(T)
    THEN <<"_unique:">> \o T \o <<":", f, ":">> \o encode(Str(v))
    ELSE <<"_index:">> \o T \o <<":", f, ":">> \o encode(Str(v)) \o RecordKey(T, k)

View(kv) == NewTransaction(kv, FALSE)

\* a record of T other than k holds value v in field f
HeldByOther(kv, T, f, v, k) ==
    \E k2 \in LiveKeys(kv, T) \ {k} : Stored(kv, T, k2)[f] = v

\* the live records of T that query q selects
Matched(kv, T, q) ==
    {k \in LiveKeys(kv, T) : q.field = "" \/ Stored(kv, T, k)[q.field] = q.val}

---------------------------------------------------------------------------
(* C1 - index coverage: in every reachable state, whatever calls led to it *)
(* and whether they succeeded or failed, every live record of every type   *)
(* has, in each index its type declares, exactly one entry referring to    *)
(* its key, and that entry is filed under the encoded current value of the *)
(* indexed field.                                                          *)
C1_IndexCoverage ==
    \A T \in TypeNames : \A k \in LiveKeys(db, T) : \A f \in IndexedFields(T) :
        IndexRefs(db, T, f, k) = {FiledUnder(T, f, Stored(db, T, k)[f], k)}

\* a record lives with a non-zero indexed value right after a successful
\* Delete of another record of its type
C1_Witness ==
    /\ last.op = "Delete" /\ last.err = Nil /\ last.typ = User
    /\ \E k \in LiveKeys(db, User) : Stored(db, User, k)["Division"] # Zero

(* C2 - unique invariant: in every reachable state no two live records of  *)
(* a type hold the same value in a field tagged hold:"unique".             *)
C2_UniqueInvariant ==
    \A T \in TypeNames : \A f \in UniqueFields(T) :
        \A k1 \in LiveKeys(db, T) : \A k2 \in LiveKeys(db, T) \ {k1} :
            Stored(db, T, k1)[f] # Stored(db, T, k2)[f]

\* two records of the type with the unique field live side by side after a
\* call that changed the store
C2_Witness ==
    /\ Cardinality(LiveKeys(db, User)) >= 2
    /\ last.op \in {"Update", "Upsert", "UpdateMatching"} /\ last.changed

(* C3 - a unique violation is reported and undone: a step that is an       *)
(* Insert on an absent key, an Update on a present key or an Upsert, whose *)
(* record carries in a unique field a value that another live record       *)
(* holds, or an UpdateMatching whose mutator gives a matched record such a *)
(* value, returns UNIQUE_EXISTS; and every Insert, Update, Upsert or       *)
(* UpdateMatching that returns UNIQUE_EXISTS leaves the store as it was.   *)
C3_Conflict ==
    LET T == last'.typ
        k == last'.key
    IN  \/ /\ \/ last'.op = "Insert" /\ ~Live(db, T, k)
              \/ last'.op = "Update" /\ Live(db, T, k)
              \/ last'.op = "Upsert"
           /\ \E f \in UniqueFields(T) : HeldByOther(db, T, f, last'.data[f], k)
        \/ /\ last'.op = "UpdateMatching"
           /\ last'.mut.field \in UniqueFields(T)
           /\ \E m \in Matched(db, T, last'.q) :
                 /\ Stored(db, T, m)[last'.mut.field] # last'.mut.val
                 /\ HeldByOther(db, T, last'.mut.field, last'.mut.val, m)

C3_UniqueExistsStep ==
    /\ C3_Conflict => last'.err = ErrUniqueExists
    /\ (/\ last'.op \in {"Insert", "Update", "Upsert", "UpdateMatching"}
        /\ last'.err = ErrUniqueExists) => db' = db

C3_UniqueExistsRollsBack == [][C3_UniqueExistsStep]_vars

\* an UpdateMatching was refused with UNIQUE_EXISTS
C3_Witness ==
    /\ last.op = "UpdateMatching" /\ last.err = ErrUniqueExists
    /\ Cardinality(LiveKeys(db, User)) >= 2

(* C4 - stale-index removal: when a successful Update or Upsert of key k,  *)
(* or a successful UpdateMatching that matches k, changes k's indexed      *)
(* field f from a to a different b, then in the store after the call a     *)
(* Find on Where(f).Eq(a) - run as a full scan or driven by any index of   *)
(* the type - does not return k, and returns nothing at all when no other  *)
(* record held a, and a Find on Where(f).Eq(b) returns k with its new      *)
(* contents.                                                               *)
C4_NewValue(T, k, f) ==
    IF /\ last'.op \in {"Update", "Upsert"} /\ last'.typ = T /\ last'.key = k
       /\ last'.err = Nil
    THEN <<last'.data[f]>>
    ELSE IF /\ last'.op = "UpdateMatching" /\ last'.typ = T /\ last'.err = Nil
            /\ last'.mut.field = f /\ k \in Matched(db, T, last'.q)
    THEN <<last'.mut.val>>
    ELSE <<>>

C4_Finds(T, k, f, a, b) ==
    \A idx \in {""} \cup IndexedFields(T) :
        LET fa == TxFind(View(db'), T, Where(f, a, idx))
            fb == TxFind(View(db'), T, Where(f, b, idx))
        IN  /\ fa.err = Nil /\ fb.err = Nil
            /\ \A i \in 1..Len(fa.out) : fa.out[i].key # RecordKey(T, k)
            /\ ~HeldByOther(db, T, f, a, k) => fa.out = <<>>
            /\ \E i \in 1..Len(fb.out) :
                  /\ fb.out[i].key = RecordKey(T, k)
                  /\ fb.out[i].value = Stored(db', T, k)
                  /\ fb.out[i].value[f] = b

C4_StaleIndexStep ==
    (last'.op \in {"Update", "Upsert", "UpdateMatching"} /\ last'.err = Nil) =>
        \A k \in LiveKeys(db, last'.typ) : \A f \in IndexedFields(last'.typ) :
            LET a == Stored(db, last'.typ, k)[f]
                new == C4_NewValue(last'.typ, k, f)
            IN  (new # <<>> /\ new[1] # a) => C4_Finds(last'.typ, k, f, a, new[1])

C4_StaleIndexRemoved == [][C4_StaleIndexStep]_vars

\* an UpdateMatching on the indexed field Division succeeded and changed the store
C4_Witness ==
    /\ last.op = "UpdateMatching" /\ last.err = Nil /\ last.changed
    /\ last.typ = User /\ last.mut.field = "Division"
    /\ \E k \in LiveKeys(db, User) : Stored(db, User, k)["Division"] = last.mut.val

(* C5 - Delete clears the indexes: after a successful Delete(k, sample) of *)
(* record r no record, index entry or unique entry of the sample's type    *)
(* refers to k, and an Insert then made under a different, unused key with *)
(* r's former unique-field value succeeds.                                 *)
C5_DeleteStep ==
    LET T == last'.typ
        k == last'.key
    IN  (last'.op = "Delete" /\ last'.err = Nil /\ Live(db, T, k)) =>
            /\ ~Live(db', T, k)
            /\ \A f \in IndexedFields(T) : IndexRefs(db', T, f, k) = {}
            /\ \A k2 \in KeysOf(T) \ (LiveKeys(db', T) \cup {k}) :
               \A data \in Records(T) :
                  (\A f \in UniqueFields(T) : data[f] = Stored(db, T, k)[f]) =>
                      TxInsert(NewTransaction(db', TRUE), k2, T, data).err = Nil

C5_DeleteClearsIndexes == [][C5_DeleteStep]_vars

\* a record with a unique field was deleted while a key of its type is unused
C5_Witness ==
    /\ last.op = "Delete" /\ last.err = Nil /\ last.changed /\ last.typ = User
    /\ LiveKeys(db, User) # KeysOf(User)

(* C6 - round trip: right after a successful Insert(k, r), Get(k) succeeds *)
(* and returns r; and what Get(k) returns for a live record is the same    *)
(* after every step other than a successful Update, Upsert or Delete of k  *)
(* or a successful UpdateMatching or DeleteMatching whose query matches k. *)
(* Together: Get(k) returns the inserted r until such a call.              *)
C6_Touches(T, k) ==
    /\ last'.typ = T /\ last'.err = Nil
    /\ \/ last'.op \in {"Update", "Upsert", "Delete"} /\ last'.key = k
       \/ last'.op \in {"UpdateMatching", "DeleteMatching"} /\ k \in Matched(db, T, last'.q)

C6_RoundTripStep ==
    /\ (last'.op = "Insert" /\ last'.err = Nil) =>
          TxGet(View(db'), last'.key, last'.typ) = [err |-> Nil, v |-> last'.data]
    /\ db' # db =>
          \A T \in TypeNames : \A k \in KeysOf(T) :
              (TxGet(View(db), k, T).err = Nil /\ ~C6_Touches(T, k)) =>
                  TxGet(View(db'), k, T) = TxGet(View(db), k, T)

C6_RoundTrip == [][C6_RoundTripStep]_vars

\* a Get returned a record that has a zero and a non-zero field
C6_Witness ==
    /\ last.op = "Get" /\ last.err = Nil /\ last.typ = User
    /\ last.out = <<Stored(db, User, last.key)>>
    /\ last.out[1]["Email"] = Zero /\ last.out[1]["Division"] # Zero

(* C7 - duplicate insert: an Insert(k, r2) made while a record of r2's     *)
(* type lives at k returns KEY_EXISTS and leaves the store as it was,      *)
(* whatever r2's fields are.                                               *)
C7_DuplicateStep ==
    (last'.op = "Insert" /\ Live(db, last'.typ, last'.key)) =>
        (last'.err = ErrKeyExists /\ db' = db)

C7_DuplicateInsert == [][C7_DuplicateStep]_vars

\* an Insert was refused with KEY_EXISTS though its record differs from the stored one
C7_Witness ==
    /\ last.op = "Insert" /\ last.err = ErrKeyExists /\ last.typ = User
    /\ Live(db, User, last.key)
    /\ \A f \in FieldNames(User) : last.data[f] # Stored(db, User, last.key)[f]

(* C8 - Update requires existence: an Update(k, r) made while no record of *)
(* r's type lives at k returns NOT_FOUND and leaves the store as it was;   *)
(* one made while a record lives at k, with no other live record holding   *)
(* r's value in a unique field, succeeds and Get(k) then returns r.        *)
C8_UpdateStep ==
    LET T == last'.typ
        k == last'.key
    IN  last'.op = "Update" =>
            IF ~Live(db, T, k)
            THEN last'.err = ErrNotFound /\ db' = db
            ELSE (\A f \in UniqueFields(T) : ~HeldByOther(db, T, f, last'.data[f], k)) =>
                    /\ last'.err = Nil
                    /\ TxGet(View(db'), k, T) = [err |-> Nil, v |-> last'.data]

C8_UpdateRequiresExistence == [][C8_UpdateStep]_vars

\* an Update of an absent key was refused while another record of the type lives
C8_Witness ==
    /\ last.op = "Update" /\ last.err = ErrNotFound /\ last.typ = User
    /\ LiveKeys(db, User) # {}

(* C9 as stated - Upsert never returns KEY_EXISTS or NOT_FOUND, leaves the  *)
(* store and returns the result that Insert would when no record lives at  *)
(* k and that Update would when one does, and in both cases Get(k) then    *)
(* returns r.  Refuted by an Upsert whose record repeats a unique value of *)
(* another record: it returns UNIQUE_EXISTS and Get(k) does not return r.  *)
C9_SameAsInsertOrUpdate ==
    LET T == last'.typ
        k == last'.key
        tx == NewTransaction(db, TRUE)
        ref == IF Live(db, T, k) THEN TxUpdate(tx, k, T, last'.data)
                                 ELSE TxInsert(tx, k, T, last'.data)
    IN  /\ last'.err \notin {ErrKeyExists, ErrNotFound}
        /\ last'.err = ref.err
        /\ db' = DBUpdate(db, ref)

C9_OriginalStep ==
    last'.op = "Upsert" =>
        /\ C9_SameAsInsertOrUpdate
        /\ TxGet(View(db'), last'.key, last'.typ) = [err |-> Nil, v |-> last'.data]

C9_Original == [][C9_OriginalStep]_vars

(* C9 - Upsert never returns KEY_EXISTS or NOT_FOUND, leaves the store and *)
(* returns the result that Insert would when no record lives at k and that *)
(* Update would when one does; when it returns no error Get(k) then        *)
(* returns r, and otherwise it returns UNIQUE_EXISTS and leaves the store  *)
(* as it was.                                                              *)
C9_UpsertStep ==
    last'.op = "Upsert" =>
        /\ C9_SameAsInsertOrUpdate
        /\ IF last'.err = Nil
           THEN TxGet(View(db'), last'.key, last'.typ) = [err |-> Nil, v |-> last'.data]
           ELSE last'.err = ErrUniqueExists /\ db' = db

C9_UpsertAmended == [][C9_UpsertStep]_vars

\* an Upsert of an absent key was refused with UNIQUE_EXISTS
C9_Witness ==
    /\ last.op = "Upsert" /\ last.err = ErrUniqueExists /\ last.typ = User
    /\ ~Live(db, User, last.key)

(* C10 - Delete: a Delete(k, sample) made while a record of the sample's   *)
(* type lives at k succeeds and Get(k) then returns NOT_FOUND; one made    *)
(* while none lives there returns NOT_FOUND and leaves the store as it     *)
(* was.                                                                    *)
C10_DeleteStep ==
    LET T == last'.typ
        k == last'.key
    IN  last'.op = "Delete" =>
            IF Live(db, T, k)
            THEN /\ last'.err = Nil
                 /\ ~Live(db', T, k)
                 /\ TxGet(View(db'), k, T).err = ErrNotFound
            ELSE last'.err = ErrNotFound /\ db' = db

C10_Delete == [][C10_DeleteStep]_vars

\* a Delete was refused with NOT_FOUND while a record of another type lives
\* at the same key
C10_Witness ==
    /\ last.op = "Delete" /\ last.err = ErrNotFound /\ last.typ = User
    /\ Live(db, Item, last.key)

---------------------------------------------------------------------------
(* Keys of the sequence and the key field (SpecKeyed) *)

\* the number an unsigned integer stands for
Num(n) == CHOOSE i \in 0..(Len(Uint64Names) - 1) : Uint64Names[i + 1] = n

\* the name of the key-tagged uint64 field of SequenceTest
KeyFieldName == "Key"

\* the key a step that is an Insert used: the argument, or the key drawn
\* from the sequence
C11_KeyUsed ==
    IF last'.key = NextSequence
    THEN issued'[Elem(last'.typ)][Len(issued'[Elem(last'.typ)])]
    ELSE last'.key

\* the i-th Insert(NextSequence) of a type is given key i, which is greater
\* than every key given before, and stores its record under it if it succeeds
C11_Assigned ==
    LET T == Elem(last'.typ)
        i == Len(issued[T])
    IN  /\ issued'[T] = Append(issued[T], Uint64Names[i + 1])
        /\ \A j \in 1..i : Num(issued[T][j]) < Num(C11_KeyUsed)
        /\ last'.err = Nil => ~Live(db, T, C11_KeyUsed) /\ Live(db', T, C11_KeyUsed)

(* C11 as stated - the keys of successive Insert(NextSequence, &r) calls   *)
(* of a type are strictly increasing, the i-th is key i, and whenever the  *)
(* record is passed by pointer its uint64 key field equals the assigned    *)
(* key after a successful call.  Refuted by a record whose key field is    *)
(* not zero when it is passed: the field is left as it is.                 *)
C11_OriginalStep ==
    (last'.op = "Insert" /\ last'.key = NextSequence) =>
        /\ C11_Assigned
        /\ (last'.err = Nil /\ Head(last'.typ) = "*") =>
              last'.out[1][KeyFieldName] = C11_KeyUsed

C11_SequenceStep ==
    (last'.op = "Insert" /\ last'.key = NextSequence) =>
        /\ C11_Assigned
        /\ (last'.err = Nil /\ Head(last'.typ) = "*") =>
              last'.out[1][KeyFieldName] =
                 IF last'.data[KeyFieldName] = Uint64Names[1]
                 THEN C11_KeyUsed
                 ELSE last'.data[KeyFieldName]

C12_KeyFieldStep ==
    LET T == Elem(last'.typ)
        k == C11_KeyUsed
        applies == /\ Head(last'.typ) = "*"
                   /\ last'.data[KeyFieldName] = Uint64Names[1]
                   /\ k \notin Keys
        expect == IF applies THEN [last'.data EXCEPT ![KeyFieldName] = k] ELSE last'.data
    IN  (last'.op = "Insert" /\ T = SequenceTest /\ ~Live(db, T, k)) =>
            /\ last'.err = Nil
            /\ last'.out = <<expect>>
            /\ Live(db', T, k)
            /\ Stored(db', T, k) = expect

---------------------------------------------------------------------------
(* Read-only transactions (SpecView) *)

(* C13 as stated - every TxInsert, TxUpdate, TxUpsert and TxDelete called  *)
(* with a read-only transaction returns the read-only transaction error    *)
(* and leaves the store unchanged, whether or not the key exists.  Refuted *)
(* by a TxDelete of an absent key, which returns NOT_FOUND.                *)
C13_OriginalStep ==
    last'.op \in {"TxInsert", "TxUpdate", "TxUpsert", "TxDelete"} =>
        /\ last'.err = ErrReadOnlyTxn
        /\ db' = db /\ ~last'.changed

C13_Original == [][C13_OriginalStep]_vars

(* C13 - every TxInsert, TxUpdate, TxUpsert and TxDelete called with a     *)
(* read-only transaction returns an error, writes nothing in the           *)
(* transaction and leaves the store unchanged, whether or not the key      *)
(* exists; the error is the read-only transaction error for TxUpsert, for  *)
(* TxInsert of an absent key and for TxUpdate and TxDelete of a present    *)
(* key, KEY_EXISTS for TxInsert of a present key and NOT_FOUND for         *)
(* TxUpdate and TxDelete of an absent key.                                 *)
C13_ReadOnlyStep ==
    LET present == Live(db, last'.typ, last'.key)
    IN  last'.op \in {"TxInsert", "TxUpdate", "TxUpsert", "TxDelete"} =>
            /\ last'.err # Nil
            /\ db' = db /\ ~last'.changed
            /\ last'.err =
                 IF last'.op = "TxInsert" /\ present THEN ErrKeyExists
                 ELSE IF last'.op \in {"TxUpdate", "TxDelete"} /\ ~present THEN ErrNotFound
                 ELSE ErrReadOnlyTxn

C13_ReadOnlyRefused == [][C13_ReadOnlyStep]_vars

\* a TxDelete of a present key was refused with the read-only transaction error
C13_Witness ==
    /\ last.op = "TxDelete" /\ last.err = ErrReadOnlyTxn
    /\ Live(db, User, last.key)

---------------------------------------------------------------------------
(* The matching forms (SpecMatching).                                      *)

\* the record keys of a query result
ResultKeys(out) == {out[i].key : i \in 1..Len(out)}

\* the index entries of kv that refer to one of the record keys in rks
RefsOf(kv, T, rks) ==
    UNION {IndexRefs(kv, T, f, k) : f \in IndexedFields(T),
                                    k \in {x \in KeysOf(T) : RecordKey(T, x) \in rks}}

(* C14 - DeleteMatching(sample, q) removes from the store exactly the       *)
(* records that Find(q) returns on the state before the call, whatever the *)
(* query (a MatchFunc with a sub-query over the same type, Skip, Limit),   *)
(* together with every index entry that refers to them; everything else in *)
(* the store - the other records and their index entries - is as before.   *)
(* It returns the error Find(q) returns.                                   *)
C14_DeleteMatchingStep ==
    last'.op = "DeleteMatching" =>
        LET T == last'.typ
            found == TxFind(View(db), T, last'.q)
            gone == ResultKeys(found.out) \cup RefsOf(db, T, ResultKeys(found.out))
        IN  /\ last'.err = found.err
            /\ DOMAIN db' = DOMAIN db \ gone
            /\ \A e \in DOMAIN db' : db'[e] = db[e]
            /\ RefsOf(db', T, ResultKeys(found.out)) = {}

C14_DeleteMatching == [][C14_DeleteMatchingStep]_vars

\* a DeleteMatching on "the field value is held by more than one record"
\* has deleted the two records that held the same value
C14_Witness ==
    /\ last.op = "DeleteMatching" /\ last.q.test = "MatchFunc" /\ last.q.skip = 0
    /\ last.q.limit = 0 /\ last.err = Nil /\ last.changed
    /\ LiveKeys(db, last.typ) = {}

\* the record that one call of the update function makes of rec
Once(mut, rec) ==
    [f \in DOMAIN rec |->
        IF mut.swap = "" THEN (IF f = mut.field THEN mut.val ELSE rec[f])
        ELSE IF f = mut.field THEN rec[mut.swap]
        ELSE IF f = mut.swap THEN rec[mut.field]
        ELSE rec[f]]

\* what is common to both readings of C15: the records a successful
\* UpdateMatching writes and those it leaves alone
UpdatedInPlace(T, q, mut) ==
    LET found == TxFind(View(db), T, q)
        matched == {k \in KeysOf(T) : RecordKey(T, k) \in ResultKeys(found.out)}
    IN  /\ found.err = Nil
        /\ LiveKeys(db', T) = LiveKeys(db, T)
        /\ \A k \in matched :
               /\ Stored(db', T, k) = Once(mut, Stored(db, T, k))
               /\ \A f \in IndexedFields(T) :
                      IndexRefs(db', T, f, k) = {FiledUnder(T, f, Stored(db', T, k)[f], k)}
        /\ \A k \in LiveKeys(db, T) \ matched :
               /\ db'[RecordKey(T, k)] = db[RecordKey(T, k)]
               /\ \A f \in IndexedFields(T) :
                      /\ IndexRefs(db', T, f, k) = IndexRefs(db, T, f, k)
                      /\ \A e \in IndexRefs(db, T, f, k) : db'[e] = db[e]

\* the keys of the records that a Find on field f, driven by its index,
\* returns for value v
FoundBy(kv, T, f, v) ==
    {k \in KeysOf(T) : RecordKey(T, k) \in ResultKeys(TxFind(View(kv), T, Where(f, v, f)).out)}

(* C15 as stated - after a successful UpdateMatching whose mutator sets an  *)
(* indexed field to a value, a Find on that field for that value returns   *)
(* exactly the keys the query matched before the call.                      *)
C15_OriginalStep ==
    last'.op = "UpdateMatching" /\ last'.err = Nil /\ last'.mut.swap = ""
        /\ last'.mut.field \in IndexedFields(last'.typ) =>
        LET T == last'.typ
            matched == {k \in KeysOf(T) :
                           RecordKey(T, k) \in ResultKeys(TxFind(View(db), T, last'.q).out)}
        IN  /\ UpdatedInPlace(T, last'.q, last'.mut)
            /\ FoundBy(db', T, last'.mut.field, last'.mut.val) = matched

C15_Original == [][C15_OriginalStep]_vars

(* C15 - a successful UpdateMatching(sample, q, mutator) applies the        *)
(* mutator exactly once to each record that Find(q) returns on the state   *)
(* before the call and writes the result back under the same key, the      *)
(* index entries of the record being those of its new field values; the    *)
(* records outside the match set and their index entries are unchanged.    *)
(* Afterwards a Find on an indexed field the mutator set, for the value it *)
(* set, returns the matched keys together with the keys of the unmatched   *)
(* records that already held that value.                                   *)
C15_UpdateMatchingStep ==
    last'.op = "UpdateMatching" /\ last'.err = Nil =>
        LET T == last'.typ
            mut == last'.mut
            matched == {k \in KeysOf(T) :
                           RecordKey(T, k) \in ResultKeys(TxFind(View(db), T, last'.q).out)}
        IN  /\ UpdatedInPlace(T, last'.q, mut)
            /\ mut.swap = "" /\ mut.field \in IndexedFields(T) =>
                   FoundBy(db', T, mut.field, mut.val) =
                       matched \cup {k \in LiveKeys(db, T) \ matched :
                                        Stored(db, T, k)[mut.field] = mut.val}

C15_UpdateMatching == [][C15_UpdateMatchingStep]_vars

\* an UpdateMatching has set the indexed field Division of one record to the
\* value another record, which the query did not match, already held
C15_Witness ==
    /\ last.op = "UpdateMatching" /\ last.err = Nil /\ last.changed
    /\ last.mut.swap = "" /\ last.mut.field = "Division" /\ last.q.field = "Email"
    /\ last.q.test = "Eq" /\ last.q.skip = 0
    /\ Cardinality(FoundBy(db, last.typ, "Division", last.mut.val)) > 1

(* C16 - an UpdateMatching or DeleteMatching that returns an error leaves   *)
(* the store exactly as it was before the call, also when matches had been *)
(* processed before the failure.  The error is the one that stopped it:    *)
(* the error of the query (TYPE_MISMATCH for a comparison with a literal   *)
(* nil), the error the mutator returned on one of the matches, or          *)
(* UNIQUE_EXISTS from writing one of the matches back.                      *)
C16_FailedStep ==
    last'.op \in {"UpdateMatching", "DeleteMatching"} =>
        LET T == last'.typ
            mut == last'.mut
            found == TxFind(View(db), T, last'.q)
            refused == {i \in 1..Len(found.out) : found.out[i].value[mut.field] = mut.failOn}
        IN  /\ last'.err # Nil => db' = db
            /\ found.err # Nil => last'.err = found.err
            /\ last'.err = ErrTypeMismatch => last'.q.test = "EqNil"
            /\ last'.op = "DeleteMatching" => last'.err = found.err
            /\ last'.op = "UpdateMatching" /\ found.err = Nil =>
                   /\ last'.err \in {Nil, ErrMutator, ErrUniqueExists}
                   /\ last'.err = ErrMutator => refused # {}
                   /\ refused # {} => last'.err # Nil
                   /\ last'.err = ErrUniqueExists =>
                          mut.swap # "" \/ mut.field \in UniqueFields(T)

C16_PartialFailureRollsBack == [][C16_FailedStep]_vars

\* an UpdateMatching has failed on its second match, on the mutator's error
\* or on UNIQUE_EXISTS, after its first match had been given a new value
C16_Witness ==
    /\ last.op = "UpdateMatching" /\ last.err \in {ErrMutator, ErrUniqueExists}
    /\ LET found == TxFind(View(db), last.typ, last.q)
       IN  /\ Len(found.out) > 1
           /\ found.out[1].value[last.mut.field] # last.mut.failOn
           /\ Once(last.mut, found.out[1].value) # found.out[1].value
           /\ updateRecord(newStorer(last.typ), NewTransaction(db, TRUE), found.out[1].key,
                            found.out[1].value, Once(last.mut, found.out[1].value)).err = Nil

---------------------------------------------------------------------------
(* The queries (SpecQuery).  A Find leaves the store as it is, so what a   *)
(* Find returned is compared with what other queries return on the same    *)
(* store.                                                                  *)

(* C17 - Find(q1.Or(q2)) returns the records of Find(q1), in their order,   *)
(* followed by those records of Find(q2), in their order, whose keys       *)
(* Find(q1) did not return: the union by record key of the two results,    *)
(* each record exactly once.  It fails when one of the two fails.          *)
C17_OrDedup ==
    (last.op = "Find" /\ Len(last.q.ors) = 1
        /\ last.q.skip = 0 /\ last.q.limit = 0 /\ last.q.sort = "") =>
        LET T == last.typ
            r1 == TxFind(View(db), T, [last.q EXCEPT !.ors = <<>>])
            r2 == TxFind(View(db), T, last.q.ors[1])
            out == last.out
        IN  IF r1.err # Nil \/ r2.err # Nil
            THEN last.err \in {r1.err, r2.err} \ {Nil}
            ELSE /\ last.err = Nil
                 /\ ResultKeys(out) = ResultKeys(r1.out) \cup ResultKeys(r2.out)
                 /\ \A i, j \in 1..Len(out) : out[i].key = out[j].key => i = j
                 /\ out = r1.out \o SelectSeq(r2.out,
                                              LAMBDA x : x.key \notin ResultKeys(r1.out))

\* a Find of q1.Or(q2) where q2 finds a record q1 found and one it did not
C17_Witness ==
    /\ last.op = "Find" /\ Len(last.q.ors) = 1 /\ last.err = Nil
    /\ last.q.skip = 0 /\ last.q.limit = 0 /\ last.q.sort = ""
    /\ LET r1 == TxFind(View(db), last.typ, [last.q EXCEPT !.ors = <<>>])
           r2 == TxFind(View(db), last.typ, last.q.ors[1])
       IN  /\ ResultKeys(r1.out) \cap ResultKeys(r2.out) # {}
           /\ ResultKeys(r2.out) \ ResultKeys(r1.out) # {}
           /\ Len(last.out) > 1

(* C18 - Find(Q.Skip(a).Limit(b)) returns elements a..a+b of Find(Q), Q     *)
(* being the query with its Or branches, its SortBy and its Reverse: the   *)
(* first a records of Find(Q) are dropped, then at most b are kept.  A     *)
(* skip of the length of Find(Q) or more leaves nothing, and on an Or      *)
(* query the skip counts through the records of the first branch into      *)
(* those of the second.                                                    *)
C18_SkipLimit ==
    last.op = "Find" /\ (last.q.skip > 0 \/ last.q.limit > 0) =>
        LET Q == [last.q EXCEPT !.skip = 0, !.limit = 0]
            all == TxFind(View(db), last.typ, Q)
            a == last.q.skip
            b == last.q.limit
            rest == IF Len(all.out) > a THEN Len(all.out) - a ELSE 0
            n == IF b = 0 \/ b > rest THEN rest ELSE b
        IN  /\ last.err = all.err
            /\ last.err = Nil =>
                   /\ last.out = [i \in 1..n |-> all.out[a + i]]
                   /\ last.q.skip >= Len(all.out) => last.out = <<>>

\* a Find of an Or query whose Skip dropped every record of the first branch
\* and returned a record of the second
C18_Witness ==
    /\ last.op = "Find" /\ Len(last.q.ors) = 1 /\ last.err = Nil /\ last.out # <<>>
    /\ LET r1 == TxFind(View(db), last.typ,
                        [last.q EXCEPT !.ors = <<>>, !.skip = 0, !.limit = 0])
       IN  r1.out # <<>> /\ last.q.skip >= Len(r1.out)

\* the pending Find, of a single chain driven by a declared index, has
\* returned what the Find of the chain without the directive returns, as a
\* set of records each returned once
SameAsWithoutIndex ==
    LET plain == TxFind(View(db), last.typ, [last.q EXCEPT !.index = ""])
    IN  /\ last.err = plain.err
        /\ {last.out[i] : i \in 1..Len(last.out)} = {plain.out[i] : i \in 1..Len(plain.out)}
        /\ Len(last.out) = Len(plain.out)

(* C19 as stated - for any query q whose .Index(x) names a declared index,  *)
(* Find(q.Index(x)) returns the same set of records as Find(q).            *)
C19_Original ==
    last.op = "Find" /\ last.q.index \in IndexedFields(last.typ) /\ last.q.ors = <<>> =>
        SameAsWithoutIndex

(* C19 - for a query q without Skip and Limit whose .Index(x) names a       *)
(* declared index of the type, Find(q.Index(x)) returns the same set of    *)
(* records, each once, as Find(q) without the directive - and fails when   *)
(* that one fails - whether the criterion is on the indexed field or on    *)
(* another field.                                                          *)
C19_IndexLocality ==
    last.op = "Find" /\ last.q.index \in IndexedFields(last.typ) /\ last.q.ors = <<>>
        /\ last.q.skip = 0 /\ last.q.limit = 0 =>
        SameAsWithoutIndex

\* a Find driven by the index of one field, with its criterion on another
\* field, has returned some of the records of the type and not others
C19_Witness ==
    /\ last.op = "Find" /\ last.q.index \in IndexedFields(last.typ)
    /\ last.q.field \notin {"", last.q.index} /\ last.q.test = "Eq"
    /\ last.q.skip = 0 /\ last.q.limit = 0 /\ last.err = Nil /\ last.out # <<>>
    /\ Len(last.out) < Cardinality(LiveKeys(db, last.typ))

\* what Count and FindOne return for query q, given what Find returned
CountAndFindOneAgree(T, q, found, count, one) ==
    /\ count.err = found.err
    /\ found.err = Nil => count.count = Len(found.out)
    /\ one.err = ErrNotFound <=> found.err = Nil /\ found.out = <<>>
    /\ found.err # Nil => one.err = found.err
    /\ found.err = Nil /\ found.out # <<>> => one.err = Nil /\ one.out = <<found.out[1]>>

(* C20 - on every store and for every query q, Count(sample, q) is the      *)
(* number of records Find(q) returns, FindOne(q) returns NOT_FOUND exactly *)
(* when Find(q) returns no record and otherwise the first record of        *)
(* Find(q); when Find(q) fails, both fail with its error.                  *)
C20_CountAndFindOne ==
    LET tx == View(db)
        T == last.typ
        q == last.q
    IN  /\ last.op = "Find" =>
               CountAndFindOneAgree(T, q, [err |-> last.err, out |-> last.out],
                                    TxCount(tx, T, q), TxFindOne(tx, T, q))
        /\ last.op = "Count" =>
               CountAndFindOneAgree(T, q, TxFind(tx, T, q),
                                    [err |-> last.err, count |-> last.out[1]],
                                    TxFindOne(tx, T, q))
        /\ last.op = "FindOne" =>
               CountAndFindOneAgree(T, q, TxFind(tx, T, q), TxCount(tx, T, q),
                                    [err |-> last.err, out |-> last.out])

\* a Count has counted more than one record for a query with a criterion
C20_Witness ==
    /\ last.op = "Count" /\ last.err = Nil /\ last.q.field # ""
    /\ last.out[1] > 1
---------------------------------------------------------------------------
(* The tags (SpecTags) *)

\* the name of the index a field's tag asks for ("" for none): the name in a
\* holdIndex tag, or the field's name when that is empty or the tag is
\* hold:"index" or hold:"unique"
C21_IndexName(field) ==
    IF field.tagKey = "holdIndex"
    THEN (IF field.tagVal # "" THEN field.tagVal ELSE field.name)
    ELSE IF field.tagKey = "hold" /\ field.tagVal \in {"index", "unique"}
    THEN field.name
    ELSE ""

(* C21 - every live Person record is filed, for each tagged field, under   *)
(* the index name the tag asks for: the name in holdIndex:"<name>", the    *)
(* field's name when <name> is empty or the tag is hold:"index" or         *)
(* hold:"unique", the latter in a unique entry that maps to the record's   *)
(* key; and no entry exists under the name of an untagged field.           *)
C21_TagsRecognised ==
    \A k \in LiveKeys(db, Person) : \A i \in DOMAIN StructFields(Person) :
        LET field == StructFields(Person)[i]
            n == C21_IndexName(field)
            v == encode(Str(Stored(db, Person, k)[field.name]))
            gk == RecordKey(Person, k)
        IN  IF n = ""
            THEN \A e \in DOMAIN db :
                     /\ ~HasPrefix(e, indexKeyPrefix(Person, field.name))
                     /\ ~HasPrefix(e, uniqueKeyPrefix(Person, field.name))
            ELSE IF field.tagKey = "hold" /\ field.tagVal = "unique"
            THEN /\ uniqueKey(Person, n, v) \in DOMAIN db
                 /\ db[uniqueKey(Person, n, v)] = encode(Bytes(gk))
            ELSE indexEntryKey(Person, n, v, gk) \in DOMAIN db
---------------------------------------------------------------------------
(* Bytes that do not decode (SpecRaw) *)

(* C26 - a Delete(k, sample) that finds at k bytes that do not decode into *)
(* the sample's type returns the decode error and leaves the store as it   *)
(* was: the record, the index entries and the unique entries all stay.     *)
C26_UndecodableStep ==
    (/\ last'.op = "Delete"
     /\ RecordKey(last'.typ, last'.key) \in DOMAIN db
     /\ decode(db[RecordKey(last'.typ, last'.key)],
               Struct(last'.typ, ZeroRecord(last'.typ))).err # Nil) =>
        /\ last'.err = ErrCodec
        /\ db' = db

C26_DeleteUndecodable == [][C26_UndecodableStep]_vars

---------------------------------------------------------------------------
(* C27: type isolation.  For any two distinct type names, one of which may *)
(* begin with the other (Item and ItemTest), no record key of the second   *)
(* lies in the key range scanned for the first, the keys that begin with   *)
(* its type prefix; so a query on one type never reads or changes the      *)
(* records of the other.                                                   *)
C27_TypeIsolation ==
    \A T1 \in {Item, ItemTest} : \A T2 \in {Item, ItemTest} \ {T1} :
        \A key \in Keys :
            encodeKey(key, T2) \in DOMAIN db => ~HasPrefix(encodeKey(key, T2), typePrefix(T1))

---------------------------------------------------------------------------
(* C29: an Update, Upsert or UpdateMatching that leaves the value of every *)
(* unique field of the records it writes as it was succeeds - the record's *)
(* own unique entry never makes the write fail with UNIQUE_EXISTS - and    *)
(* afterwards the unique entry of that value still maps to the record key. *)
C29_KeepsUnique(T, old, new) == \A f \in UniqueFields(T) : old[f] = new[f]

C29_OwnEntries(kv, T, k) ==
    \A f \in UniqueFields(T) :
        /\ FiledUnder(T, f, Stored(kv, T, k)[f], k) \in DOMAIN kv
        /\ kv[FiledUnder(T, f, Stored(kv, T, k)[f], k)] = encode(Bytes(RecordKey(T, k)))

C29_SelfUniqueStep ==
    LET T == last'.typ
        k == last'.key
        hit == Matched(db, T, last'.q)
    IN  /\ (/\ last'.op \in {"Update", "Upsert"}
            /\ Live(db, T, k)
            /\ C29_KeepsUnique(T, Stored(db, T, k), last'.data))
           => /\ last'.err = Nil
              /\ Stored(db', T, k) = last'.data
              /\ C29_OwnEntries(db', T, k)
        /\ (/\ last'.op = "UpdateMatching"
            /\ \A k2 \in hit :
                   C29_KeepsUnique(T, Stored(db, T, k2), Once(last'.mut, Stored(db, T, k2))))
           => /\ last'.err = Nil
              /\ \A k2 \in hit : /\ Stored(db', T, k2) = Once(last'.mut, Stored(db, T, k2))
                                 /\ C29_OwnEntries(db', T, k2)

C29_OwnUniqueEntry == [][C29_SelfUniqueStep]_vars

\* an UpdateMatching that set another field than the unique one rewrote a
\* record, whose unique entry is still in place
C29_Witness ==
    /\ last.op = "UpdateMatching" /\ last.typ = User /\ last.err = Nil /\ last.changed
    /\ last.mut.field \notin UniqueFields(User)
    /\ \E k \in LiveKeys(db, User) :
           /\ Stored(db, User, k)[last.mut.field] = last.mut.val
           /\ C29_OwnEntries(db, User, k)

---------------------------------------------------------------------------
(* C30: a store encodes and decodes with the codec pair passed to its own  *)
(* Open for its whole lifetime; the Open of a second store with another    *)
(* pair does not change the codec of the first.  For the store opened with *)
(* the default pair: every record key, record and index entry it holds is  *)
(* an encoding by DefaultEncode, whatever stores were opened since.        *)
C30_ByDefaultEncode(k) ==
    \/ \E key \in KeysOf(User), r \in Records(User) :
           /\ k = typePrefix(User) \o DefaultEncode(KeyValue(key))
           /\ db[k] = DefaultEncode(Struct(User, r))
    \/ \E key \in KeysOf(User), f \in IndexedFields(User), v \in ValsOf(User) :
           LET gk == typePrefix(User) \o DefaultEncode(KeyValue(key))
           IN  \/ k = indexEntryKey(User, f, DefaultEncode(Str(v)), gk)
               \/ /\ k = uniqueKey(User, f, DefaultEncode(Str(v)))
                  /\ db[k] = DefaultEncode(Bytes(gk))

C30_OwnCodec == \A k \in DOMAIN db : C30_ByDefaultEncode(k)

---------------------------------------------------------------------------
(* C28: a Find that runs while write transactions commit returns a result  *)
(* computable from one committed state of the store, the one its           *)
(* transaction was opened on: the driving scan (of the records or of an    *)
(* index), the record loads and the sub-queries of a MatchFunc all observe *)
(* it, so the records and index entries of a write transaction are seen    *)
(* all or not at all.                                                      *)

\* the keys of the records of T in state kv that query q selects
C28_Selected(kv, T, q) ==
    {k \in LiveKeys(kv, T) :
        \/ q.field = ""
        \/ q.test = "Eq" /\ Stored(kv, T, k)[q.field] = q.val
        \/ /\ q.test = "MatchFunc"
           /\ \E k2 \in LiveKeys(kv, T) \ {k} :
                  Stored(kv, T, k2)[q.field] = Stored(kv, T, k)[q.field]}

C28_SnapshotStep ==
    (reader.open /\ ~reader'.open) =>
        LET kv == reader.tx.kv
            T == reader.typ
            out == reader'.res.out
        IN  /\ reader'.res.err = Nil
            /\ ResultKeys(out) = {RecordKey(T, k) : k \in C28_Selected(kv, T, reader.q)}
            /\ Len(out) = Cardinality(C28_Selected(kv, T, reader.q))
            /\ \A i \in 1..Len(out) : out[i].value = decode(kv[out[i].key], Struct(T, ZeroRecord(T))).v

C28_SnapshotRead == [][C28_SnapshotStep]_vars

\* a Find with a MatchFunc returned two records that share a value, of
\* which the store by then holds only one, under another value
C28_Witness ==
    /\ ~reader.open /\ reader.q.test = "MatchFunc" /\ reader.q.field # ""
    /\ Len(reader.res.out) = 2
    /\ Cardinality(LiveKeys(db, User)) = 1
    /\ \A k \in LiveKeys(db, User) : \A i \in 1..2 :
           Stored(db, User, k)[reader.q.field] # reader.res.out[i].value[reader.q.field]

---------------------------------------------------------------------------
(* C22: for each type name the store creates at most one sequence handle,  *)
(* even when several goroutines issue their first Insert(NextSequence) for *)
(* the type concurrently; hence every handle ever obtained from the engine *)
(* is in the sequence map and, once Close has closed the engine, released, *)
(* and no two sequence inserts of one type receive the same key.           *)
C22_OneHandlePerType ==
    /\ \A h1, h2 \in DOMAIN handles : handles[h1].typ = handles[h2].typ => h1 = h2
    /\ \A h \in DOMAIN handles :
           \/ handles[h].stored
           \/ \E g \in Goroutines : goroutines[g].pc = "store" /\ goroutines[g].seq = h
    /\ ~engine.open => \A h \in DOMAIN handles : handles[h].released
    /\ \A T \in DOMAIN issued : \A i, j \in DOMAIN issued[T] :
           issued[T][i] = issued[T][j] => i = j

---------------------------------------------------------------------------
(* C23: Close releases every sequence handle held in the sequence map      *)
(* before it closes the engine, and whenever Close is called the engine    *)
(* ends up closed: the engine close is never skipped and no handle of the  *)
(* map is left unreleased.                                                 *)
C23_CloseCloses ==
    last.op = "Close" =>
        /\ ~engine.open
        /\ \A h \in DOMAIN handles : handles[h].stored => handles[h].released

---------------------------------------------------------------------------
(* C24: the GC task that Open starts is tied to the life of the store:     *)
(* once Close has closed the engine the task begins no further GC call.    *)
C24_NoCallStep == ~engine.open => engine'.inflight <= engine.inflight

C24_StopsWithStore == [][C24_NoCallStep]_vars

---------------------------------------------------------------------------
(* C25: on each tick the store calls the engine's value-log GC again for   *)
(* as long as the call before reported success, and ends the cycle at the  *)
(* first call that reports an error; at most one call is in flight, the    *)
(* cycles never overlap; and the cycle ends, the engine reporting in the   *)
(* end that there is nothing to rewrite.                                   *)
C25_CycleStep ==
    /\ (gc.pc = "wait" /\ gc'.pc # "wait") => (gc.tick /\ gc'.pc = "again" /\ gc'.calls = 0)
    /\ (engine'.inflight > engine.inflight) => gc.pc = "again"
    /\ (engine'.inflight < engine.inflight) =>
           gc'.pc = (IF engine'.garbage < engine.garbage THEN "again" ELSE "wait")
    /\ (gc'.pc = "wait" /\ gc.pc # "wait") => engine'.garbage = engine.garbage

C25_Cycle ==
    /\ [](engine.inflight <= 1)
    /\ [][C25_CycleStep]_vars
    /\ (gc.pc # "wait") ~> (gc.pc = "wait")

\* a cycle has ended at the call after those that rewrote every file
C25_Witness ==
    /\ gc.pc = "wait" /\ gc.calls = MaxGarbage + 1
    /\ engine.garbage = 0 /\ engine.discarded = MaxGarbage

====
